---- MODULE Spec2Model ----
(***************************************************************************)
(* Selection controller (NewsViewer) and translation coordinator (Space)   *)
(* of the lingo-scraper front end.                                         *)
(*                                                                         *)
(* Texts are sequences of one-character strings.  A nullable value is a    *)
(* sequence of length 0 (null) or 1 (the value).                           *)
(***************************************************************************)
EXTENDS Integers, Sequences, FiniteSets, TLC

None == <<>>
Some(x) == <<x>>
IsSome(o) == Len(o) = 1
Val(o) == o[1]

(***************************************************************************)
(* Characters                                                              *)
(***************************************************************************)
WhitespaceChars == {" ", "\n"}
WordChars == {"a", "b", "c", "'", "-"}
IsSpace(c) == c \in WhitespaceChars
\* faulty variant: the patterns strip whitespace only
IsBoundaryCharWhitespaceOnly(c) == IsSpace(c)
IsBoundaryChar(c) == c \notin WordChars

RECURSIVE StripLeadingBoundary(_)
StripLeadingBoundary(s) ==
    IF s # <<>> /\ IsBoundaryChar(Head(s)) THEN StripLeadingBoundary(Tail(s)) ELSE s

RECURSIVE StripTrailingBoundary(_)
StripTrailingBoundary(s) ==
    IF s # <<>> /\ IsBoundaryChar(s[Len(s)])
    THEN StripTrailingBoundary(SubSeq(s, 1, Len(s) - 1)) ELSE s

RECURSIVE TrimStart(_)
TrimStart(s) == IF s # <<>> /\ IsSpace(Head(s)) THEN TrimStart(Tail(s)) ELSE s

RECURSIVE TrimEnd(_)
TrimEnd(s) ==
    IF s # <<>> /\ IsSpace(s[Len(s)]) THEN TrimEnd(SubSeq(s, 1, Len(s) - 1)) ELSE s

Trim(s) == TrimEnd(TrimStart(s))

\* faulty variant: the patterns are not anchored, so every boundary character
\* is removed, interior ones included
normalizeTokenForTranslationEverywhere(token) ==
    Trim(SelectSeq(token, LAMBDA c : ~IsBoundaryChar(c)))

normalizeTokenForTranslation(token) ==
    Trim(StripTrailingBoundary(StripLeadingBoundary(token)))

\* fragment.match(/^[^\p{L}\p{N}'-]+/u)?.[0] ?? ""
LeadingBoundaryOf(fragment) ==
    SubSeq(fragment, 1, Len(fragment) - Len(StripLeadingBoundary(fragment)))

\* fragment.match(/[^\p{L}\p{N}'-]+$/u)?.[0] ?? ""
TrailingBoundaryOf(fragment) ==
    SubSeq(fragment, Len(StripTrailingBoundary(fragment)) + 1, Len(fragment))

\* value.replace(/\s+/g, " ")
RECURSIVE CollapseWhitespace(_)
CollapseWhitespace(s) ==
    IF s = <<>> THEN <<>>
    ELSE IF IsSpace(Head(s))
         THEN <<" ">> \o CollapseWhitespace(TrimStart(s))
         ELSE <<Head(s)>> \o CollapseWhitespace(Tail(s))

\* parts.join(" ")
RECURSIVE JoinWithSpace(_)
JoinWithSpace(parts) ==
    IF parts = <<>> THEN <<>>
    ELSE IF Len(parts) = 1 THEN parts[1]
         ELSE parts[1] \o <<" ">> \o JoinWithSpace(Tail(parts))

RECURSIVE Concat(_)
Concat(parts) == IF parts = <<>> THEN <<>> ELSE Head(parts) \o Concat(Tail(parts))

\* parts.filter(Boolean) on strings
RECURSIVE FilterNonEmpty(_)
FilterNonEmpty(parts) ==
    IF parts = <<>> THEN <<>>
    ELSE IF Head(parts) = <<>> THEN FilterNonEmpty(Tail(parts))
         ELSE <<Head(parts)>> \o FilterNonEmpty(Tail(parts))

(***************************************************************************)
(* Tokenizer: text.split(/(\s+)/) and the token records                    *)
(***************************************************************************)
\* length of the maximal prefix of s whose characters are all of the class of s[1]
RECURSIVE RunLength(_, _)
RunLength(s, space) ==
    IF s # <<>> /\ IsSpace(Head(s)) = space THEN 1 + RunLength(Tail(s), space) ELSE 0

\* the non-empty fragments of text.split(/(\s+)/), each with its index in the
\* split array (words at even indices, whitespace runs at odd indices)
RECURSIVE SplitRuns(_, _)
SplitRuns(s, index) ==
    IF s = <<>> THEN <<>>
    ELSE LET space == IsSpace(Head(s))
             n == RunLength(s, space)
             at == IF space = (index % 2 = 1) THEN index ELSE index + 1
         IN <<[value |-> SubSeq(s, 1, n), space |-> space, fragmentIndex |-> at]>>
            \o SplitRuns(SubSeq(s, n + 1, Len(s)), at + 1)

\* faulty variant: the text is trimmed at its end before it is split
RawSegmentsTrimmed(text) == SplitRuns(TrimEnd(text), 0)

RawSegments(text) == SplitRuns(text, 0)

WordKey(keyPrefix, wordCounter) == [prefix |-> keyPrefix, word |-> wordCounter]

\* the token records of one text block, in order (registerToken is called for
\* each); separatorAfter is the whitespace fragment that follows the word
RECURSIVE TokenRecords(_, _, _)
TokenRecords(frags, keyPrefix, wordCounter) ==
    IF frags = <<>> THEN <<>>
    ELSE IF Head(frags).space THEN TokenRecords(Tail(frags), keyPrefix, wordCounter)
    ELSE LET fragment == Head(frags).value
             rest == Tail(frags)
             record == [key |-> WordKey(keyPrefix, wordCounter),
                        token |-> fragment,
                        normalized |-> normalizeTokenForTranslation(fragment),
                        leading |-> LeadingBoundaryOf(fragment),
                        trailing |-> TrailingBoundaryOf(fragment),
                        separatorAfter |-> IF rest # <<>> /\ Head(rest).space
                                           THEN Head(rest).value ELSE <<>>]
         IN <<record>> \o TokenRecords(rest, keyPrefix, wordCounter + 1)

renderInteractiveTextTokens(text, keyPrefix) == TokenRecords(RawSegments(text), keyPrefix, 0)

(***************************************************************************)
(* Documents (NewsData) and the registry one render pass builds            *)
(***************************************************************************)
KeyPrefix(kind, section, block, item) ==
    [kind |-> kind, section |-> section, block |-> block, item |-> item]

SemTitulo == <<"a", "b", "c", " ", "a">>   \* stands for the fallback title "Sem título"

RECURSIVE ListItemTokens(_, _, _, _)
ListItemTokens(items, sIndex, bIndex, iIndex) ==
    IF items = <<>> THEN <<>>
    ELSE renderInteractiveTextTokens(Head(items), KeyPrefix("list", sIndex, bIndex, iIndex))
         \o ListItemTokens(Tail(items), sIndex, bIndex, iIndex + 1)

RECURSIVE BlockTokens(_, _, _)
BlockTokens(blocks, sIndex, bIndex) ==
    IF blocks = <<>> THEN <<>>
    ELSE LET block == Head(blocks)
             here == IF block.type = "paragraph"
                     THEN renderInteractiveTextTokens(block.text,
                                                      KeyPrefix("paragraph", sIndex, bIndex, -1))
                     ELSE IF block.type = "list"
                          THEN ListItemTokens(block.items, sIndex, bIndex, 0)
                          ELSE <<>>
         IN here \o BlockTokens(Tail(blocks), sIndex, bIndex + 1)

RECURSIVE SectionTokens(_, _)
SectionTokens(sections, sIndex) ==
    IF sections = <<>> THEN <<>>
    ELSE LET section == Head(sections)
             heading == IF section.heading # <<>>
                        THEN renderInteractiveTextTokens(section.heading,
                                                         KeyPrefix("heading", sIndex, -1, -1))
                        ELSE <<>>
         IN heading \o BlockTokens(section.blocks, sIndex, 0)
            \o SectionTokens(Tail(sections), sIndex + 1)

\* the tokens registered, in order, by one render of the viewer for 'data'
RenderTokens(data) ==
    renderInteractiveTextTokens(IF data.title # <<>> THEN data.title ELSE SemTitulo,
                                KeyPrefix("headline", -1, -1, -1))
    \o renderInteractiveTextTokens(data.subtitle, KeyPrefix("subtitle", -1, -1, -1))
    \o SectionTokens(data.sections, 0)

Paragraph(text) == [type |-> "paragraph", text |-> text, items |-> <<>>]
ListBlock(items) == [type |-> "list", text |-> <<>>, items |-> items]

DocumentList ==
    << [title |-> <<"a", " ", "b", ",">>,
        subtitle |-> <<>>,
        sections |-> << [heading |-> <<>>,
                         blocks |-> << Paragraph(<<"!", "!">>) >>] >>],
       [title |-> <<"-", "-">>,
        subtitle |-> <<>>,
        sections |-> <<>>] >>

Documents == 1..Len(DocumentList)

\* Bounded texts for the tokenizer: every string over TextAlphabet (a letter,
\* a hyphen, a punctuation mark, a blank, a line break) up to MaxTextLen
\* characters, each rendered as the subtitle of a document titled "a"
TextAlphabet == <<"a", "-", ",", " ", "\n">>
MaxTextLen == 3

Extend(texts) ==
    [k \in 1..(Len(texts) * Len(TextAlphabet)) |->
        texts[((k - 1) \div Len(TextAlphabet)) + 1]
        \o <<TextAlphabet[((k - 1) % Len(TextAlphabet)) + 1]>>]

RECURSIVE TextsOfLength(_)
TextsOfLength(n) == IF n = 0 THEN << <<>> >> ELSE Extend(TextsOfLength(n - 1))

TextList == Concat([n \in 1..(MaxTextLen + 1) |-> TextsOfLength(n - 1)])

TextDocument(text) == [title |-> <<"a">>, subtitle |-> text, sections |-> <<>>]

\* Documents with sections: each section with or without a heading and with
\* paragraphs and lists as blocks, one list long enough for a two-digit index
Repeat(n, item) == [i \in 1..n |-> item]

MaxSections == 2
LongListLen == 11

BlockLists ==
    << <<>>,
       << Paragraph(<<"a", " ", "b">>) >>,
       << Paragraph(<<"a">>), Paragraph(<<"a">>) >>,
       << ListBlock(<< <<"a">>, <<"a", " ", "b">> >>) >>,
       << Paragraph(<<"a">>), ListBlock(<< <<"a">>, <<"a", " ", "b">> >>) >>,
       << ListBlock(Repeat(LongListLen, <<"a">>)), ListBlock(<< <<"a">> >>) >> >>

SectionList ==
    Concat([b \in 1..Len(BlockLists) |->
               << [heading |-> <<>>, blocks |-> BlockLists[b]],
                  [heading |-> <<"a", " ", "b">>, blocks |-> BlockLists[b]] >>])

ExtendSections(lists) ==
    Concat([l \in 1..Len(lists) |->
               [e \in 1..Len(SectionList) |-> Append(lists[l], SectionList[e])]])

RECURSIVE SectionListsOfLength(_)
SectionListsOfLength(n) ==
    IF n = 0 THEN << <<>> >> ELSE ExtendSections(SectionListsOfLength(n - 1))

SectionLists == Concat([n \in 1..(MaxSections + 1) |-> SectionListsOfLength(n - 1)])

StructuredDocument(sections) ==
    [title |-> <<"a">>, subtitle |-> <<"a", " ", "b">>, sections |-> sections]

AllDocuments ==
    DocumentList \o [t \in 1..Len(TextList) |-> TextDocument(TextList[t])]
    \o [l \in 1..Len(SectionLists) |-> StructuredDocument(SectionLists[l])]

TextDocuments == (Len(DocumentList) + 1)..(Len(DocumentList) + Len(TextList))

StructuredDocuments == (Len(DocumentList) + Len(TextList) + 1)..Len(AllDocuments)

RegistryOf == [d \in 1..Len(AllDocuments) |-> RenderTokens(AllDocuments[d])]


KeysOf(tokens) == [i \in 1..Len(tokens) |-> tokens[i].key]

\* every token key any document registers
KeyUniverse == UNION {{RegistryOf[d][i].key : i \in 1..Len(RegistryOf[d])} : d \in Documents}

(***************************************************************************)
(* Selection controller (NewsViewer)                                       *)
(***************************************************************************)
\* tokens.findIndex((item) => item.key === key): 0 stands for -1
RECURSIVE FindIndexFrom(_, _, _)
FindIndexFrom(tokens, key, i) ==
    IF i > Len(tokens) THEN 0
    ELSE IF tokens[i].key = key THEN i ELSE FindIndexFrom(tokens, key, i + 1)

FindIndex(tokens, key) == FindIndexFrom(tokens, key, 1)

\* the pieces applySelection joins into the original label
OriginalPieces(slice) ==
    [i \in 1..Len(slice) |->
        slice[i].token \o (IF i < Len(slice) THEN slice[i].separatorAfter ELSE <<>>)]

\* faulty variant: the keys are the two end points instead of the slice between them
ResolveRangeEndpoints(tokens, startKey, endKey) ==
    IF Len(tokens) = 0 \/ FindIndex(tokens, startKey) = 0 \/ FindIndex(tokens, endKey) = 0
    THEN None
    ELSE Some([keys |-> <<startKey, endKey>>,
               normalized |-> None,
               boundaries |-> None,
               originalLabel |-> None])

\* faulty variant: a focus that precedes the anchor is clamped to the anchor
ResolveRangeForwardOnly(tokens, startKey, endKey) ==
    IF Len(tokens) = 0 \/ FindIndex(tokens, startKey) = 0 \/ FindIndex(tokens, endKey) = 0
    THEN None
    ELSE LET from == FindIndex(tokens, startKey)
             to == IF FindIndex(tokens, endKey) >= from THEN FindIndex(tokens, endKey) ELSE from
             slice == SubSeq(tokens, from, to)
         IN Some([keys |-> KeysOf(slice),
                  normalized |-> None,
                  boundaries |-> Some([leading |-> slice[1].leading,
                                       trailing |-> slice[Len(slice)].trailing]),
                  originalLabel |-> None])

\* faulty variant: the slice is listed from the anchor towards the focus, so
\* a backward range comes out in reverse order
ResolveRangeAnchorFirst(tokens, startKey, endKey) ==
    IF Len(tokens) = 0 \/ FindIndex(tokens, startKey) = 0 \/ FindIndex(tokens, endKey) = 0
    THEN None
    ELSE LET startIndex == FindIndex(tokens, startKey)
             endIndex == FindIndex(tokens, endKey)
             forward == SubSeq(tokens, IF startIndex <= endIndex THEN startIndex ELSE endIndex,
                                       IF startIndex <= endIndex THEN endIndex ELSE startIndex)
             slice == IF startIndex <= endIndex THEN forward
                      ELSE [i \in 1..Len(forward) |-> forward[Len(forward) + 1 - i]]
             normalizedJoined ==
                 Trim(CollapseWhitespace(JoinWithSpace(FilterNonEmpty(
                     [i \in 1..Len(slice) |-> slice[i].normalized]))))
         IN Some([keys |-> KeysOf(slice),
                  normalized |-> IF Len(normalizedJoined) > 0
                                 THEN Some(normalizedJoined) ELSE None,
                  boundaries |-> Some([leading |-> slice[1].leading,
                                       trailing |-> slice[Len(slice)].trailing]),
                  originalLabel |-> None])

\* faulty variant: a range resolves only when both keys belong to one text block
ResolveRangeSameBlock(tokens, startKey, endKey) ==
    IF Len(tokens) = 0 \/ startKey.prefix # endKey.prefix THEN None
    ELSE LET startIndex == FindIndex(tokens, startKey)
             endIndex == FindIndex(tokens, endKey)
         IN IF startIndex = 0 \/ endIndex = 0 THEN None
            ELSE LET from == IF startIndex <= endIndex THEN startIndex ELSE endIndex
                     to == IF startIndex <= endIndex THEN endIndex ELSE startIndex
                     slice == SubSeq(tokens, from, to)
                     normalizedJoined ==
                         Trim(CollapseWhitespace(JoinWithSpace(FilterNonEmpty(
                             [i \in 1..Len(slice) |-> slice[i].normalized]))))
                     originalLabel == Trim(Concat(OriginalPieces(slice)))
                 IN Some([keys |-> KeysOf(slice),
                          normalized |-> IF Len(normalizedJoined) > 0
                                         THEN Some(normalizedJoined) ELSE None,
                          boundaries |-> Some([leading |-> slice[1].leading,
                                               trailing |-> slice[Len(slice)].trailing]),
                          originalLabel |-> IF originalLabel # <<>>
                                            THEN Some(originalLabel) ELSE None])

\* the values applySelection computes; None when it returns null
ResolveRange(tokens, startKey, endKey) ==
    IF Len(tokens) = 0 THEN None
    ELSE LET startIndex == FindIndex(tokens, startKey)
             endIndex == FindIndex(tokens, endKey)
         IN IF startIndex = 0 \/ endIndex = 0 THEN None
            ELSE LET from == IF startIndex <= endIndex THEN startIndex ELSE endIndex
                     to == IF startIndex <= endIndex THEN endIndex ELSE startIndex
                     slice == SubSeq(tokens, from, to)
                     normalizedJoined ==
                         Trim(CollapseWhitespace(JoinWithSpace(FilterNonEmpty(
                             [i \in 1..Len(slice) |-> slice[i].normalized]))))
                     originalLabel == Trim(Concat(OriginalPieces(slice)))
                 IN Some([keys |-> KeysOf(slice),
                          normalized |-> IF Len(normalizedJoined) > 0
                                         THEN Some(normalizedJoined) ELSE None,
                          boundaries |-> Some([leading |-> slice[1].leading,
                                               trailing |-> slice[Len(slice)].trailing]),
                          originalLabel |-> IF originalLabel # <<>>
                                            THEN Some(originalLabel) ELSE None])

\* applySelection: the viewer after the call (unchanged when it returns null)
applySelection(v, startKey, endKey) ==
    LET r == ResolveRange(v.tokenRegistry, startKey, endKey)
    IN IF r = None THEN v
       ELSE [v EXCEPT !.selectionKeys = Val(r).keys,
                      !.selectionNormalized = Val(r).normalized,
                      !.selectionBoundaries = Val(r).boundaries,
                      !.selectionOriginalLabel = Val(r).originalLabel,
                      !.lastSelectionRef = Some([keys |-> Val(r).keys,
                                                 normalized |-> Val(r).normalized])]

\* faulty variant: setSelectionKeys([]) is missing
clearSelectionKeepsKeys(v) ==
    [v EXCEPT !.selectionNormalized = None,
              !.selectionBoundaries = None,
              !.selectionOriginalLabel = None,
              !.lastSelectionRef = None,
              !.pointerSelectingRef = FALSE,
              !.anchorKeyRef = None]

\* faulty variant: the refs of a drag in progress are not reset
clearSelectionKeepsDrag(v) ==
    [v EXCEPT !.selectionKeys = <<>>,
              !.selectionNormalized = None,
              !.selectionBoundaries = None,
              !.selectionOriginalLabel = None,
              !.lastSelectionRef = None]

\* clearSelection without its onSelectionChange(null) call
clearSelection(v) ==
    [v EXCEPT !.selectionKeys = <<>>,
              !.selectionNormalized = None,
              !.selectionBoundaries = None,
              !.selectionOriginalLabel = None,
              !.lastSelectionRef = None,
              !.pointerSelectingRef = FALSE,
              !.anchorKeyRef = None]

\* lastSelectionRef.current?.normalized ?? null
LastNormalized(v) ==
    IF v.lastSelectionRef = None THEN None ELSE Val(v.lastSelectionRef).normalized

\* faulty variant: the anchor is kept
finalizeSelectionKeepsAnchor(v) == [v EXCEPT !.pointerSelectingRef = FALSE]

\* finalizeSelection past its guard
finalizeSelection(v) ==
    [v EXCEPT !.pointerSelectingRef = FALSE, !.anchorKeyRef = None]

\* faulty variant: the shift key is ignored
PointerDownAnchorNoShift(v, tokenKey, shiftKey) == tokenKey

\* the anchor handlePointerDown chooses
PointerDownAnchor(v, tokenKey, shiftKey) ==
    IF shiftKey /\ Len(v.selectionKeys) > 0 THEN v.selectionKeys[1] ELSE tokenKey

\* faulty variant: a failed resolution leaves the anchor and the selecting flag set
handlePointerDownStaysArmed(v, tokenKey, shiftKey) ==
    applySelection([v EXCEPT !.anchorKeyRef = Some(PointerDownAnchor(v, tokenKey, shiftKey)),
                             !.pointerSelectingRef = TRUE],
                   PointerDownAnchor(v, tokenKey, shiftKey), tokenKey)

\* handlePointerDown past the pointer-type, button and toggle-off checks
handlePointerDown(v, tokenKey, shiftKey) ==
    LET anchorKey == PointerDownAnchor(v, tokenKey, shiftKey)
        armed == [v EXCEPT !.anchorKeyRef = Some(anchorKey), !.pointerSelectingRef = TRUE]
    IN IF ResolveRange(v.tokenRegistry, anchorKey, tokenKey) = None
       THEN [armed EXCEPT !.pointerSelectingRef = FALSE, !.anchorKeyRef = None]
       ELSE applySelection(armed, anchorKey, tokenKey)

\* faulty variant: the refs of a drag in progress are left as they are
handleKeySelectionKeepsDrag(v, tokenKey) == applySelection(v, tokenKey, tokenKey)

\* handleKeySelection without its onSelectionChange call
handleKeySelection(v, tokenKey) ==
    [applySelection(v, tokenKey, tokenKey) EXCEPT !.pointerSelectingRef = FALSE,
                                                  !.anchorKeyRef = None]

\* the effect on [selectionKeys, selectionNormalized] that re-aligns lastSelectionRef
SyncLastSelection(v) ==
    IF v.lastSelectionRef = None THEN v
    ELSE IF /\ Val(v.lastSelectionRef).normalized = v.selectionNormalized
            /\ Val(v.lastSelectionRef).keys = v.selectionKeys
         THEN v
         ELSE [v EXCEPT !.lastSelectionRef = Some([keys |-> v.selectionKeys,
                                                   normalized |-> v.selectionNormalized])]

\* one render pass of the viewer for document d: the registry is emptied and
\* every token of the document is registered again
RenderViewer(v, d) == SyncLastSelection([v EXCEPT !.tokenRegistry = RegistryOf[d]])

InitialViewer ==
    [tokenRegistry |-> <<>>,
     anchorKeyRef |-> None,
     pointerSelectingRef |-> FALSE,
     lastSelectionRef |-> None,
     selectionKeys |-> <<>>,
     selectionNormalized |-> None,
     selectionBoundaries |-> None,
     selectionOriginalLabel |-> None,
     pending |-> "none"]


(***************************************************************************)
(* Translation coordinator (Space)                                         *)
(***************************************************************************)
Languages == {"pt", "en"}
DefaultLanguage == "pt"

MaxRequests == 2
RequestIds == 1..MaxRequests

\* a fetch of translateWord: "fetch" until the response headers arrive, then
\* "okBody" (response.ok, response.json() pending) or "errBody" (not ok,
\* response.text() pending); "none" marks an unused controller slot
NoRequest == [text |-> <<>>, lang |-> "", phase |-> "none", aborted |-> FALSE]

normalizeSelectionSegment(value) ==
    Trim(StripTrailingBoundary(StripLeadingBoundary(value)))

\* input.split(/\s+/)
RECURSIVE SplitOnWhitespace(_)
SplitOnWhitespace(s) ==
    LET n == RunLength(s, FALSE)
        rest == SubSeq(s, n + 1, Len(s))
    IN IF rest = <<>> THEN <<SubSeq(s, 1, n)>>
       ELSE <<SubSeq(s, 1, n)>> \o SplitOnWhitespace(TrimStart(rest))

\* faulty variant: the segments are joined without a space
buildNormalizedSelectionUnspaced(input) ==
    Concat(FilterNonEmpty(
        [i \in 1..Len(SplitOnWhitespace(input)) |->
            normalizeSelectionSegment(SplitOnWhitespace(input)[i])]))

buildNormalizedSelection(input) ==
    JoinWithSpace(FilterNonEmpty(
        [i \in 1..Len(SplitOnWhitespace(input)) |->
            normalizeSelectionSegment(SplitOnWhitespace(input)[i])]))

\* faulty variant: abort() does nothing
AbortControllerIgnored(s, id) == s

\* controller.abort(); 0 stands for a null controller, and aborting a
\* controller whose request has settled changes nothing.  The promise of an
\* aborted call only rejects, so its arguments are dropped from the record
AbortController(s, id) ==
    IF id = 0 \/ s.requests[id].phase = "none" THEN s
    ELSE [s EXCEPT !.requests[id] = [NoRequest EXCEPT !.phase = s.requests[id].phase,
                                                      !.aborted = TRUE]]

FreeIds(s) == {id \in RequestIds : s.requests[id].phase = "none"}
NewControllerId(s) == CHOOSE id \in FreeIds(s) : \A other \in FreeIds(s) : id <= other

\* the start of handleSelectionChange: the audio is paused and dropped, the
\* speech synthesis is canceled
StopPronunciation(s) ==
    [s EXCEPT !.page.audio = None,
              !.page.speaking = None,
              !.page.isPlayingPronunciation = FALSE,
              !.page.pronunciationError = None]

\* handleSelectionChange(text); text is the nullable phrase the viewer emits
handleSelectionChange(s, text) ==
    LET original == Trim(CollapseWhitespace(IF text = None THEN <<>> ELSE Val(text)))
        normalized == IF original # <<>> THEN buildNormalizedSelection(original) ELSE <<>>
    IN IF original = <<>>
       THEN [AbortController(StopPronunciation(s), s.translationControllerRef) EXCEPT
                !.translationControllerRef = 0,
                !.infoChanged = s.infoChanged \/ s.selectedTextInfo # None,
                !.selectedTextInfo = None,
                !.translatedWord = None,
                !.detectedLanguage = None,
                !.translationError = None,
                !.isTranslatingWord = FALSE]
       ELSE [StopPronunciation(s) EXCEPT
                !.translatedWord = None,
                !.detectedLanguage = None,
                !.translationError = None,
                !.infoChanged = TRUE,
                !.selectedTextInfo = Some([original |-> original, normalized |-> normalized])]

\* handleLanguageSelect(language)
handleLanguageSelect(s, code) ==
    [s EXCEPT !.selectedLanguageCode = code,
              !.infoChanged = s.infoChanged \/ code # s.selectedLanguageCode]

\* faulty variant: the request is always made for the default language
TranslationEffectDefaultLanguage(s) ==
    LET cleaned == AbortController(s, s.effectController)
    IN IF s.selectedTextInfo = None
       THEN [AbortController(cleaned, cleaned.translationControllerRef) EXCEPT
                !.translationControllerRef = 0,
                !.effectController = 0,
                !.isTranslatingWord = FALSE,
                !.translatedWord = None,
                !.detectedLanguage = None,
                !.translationError = None,
                !.infoChanged = FALSE]
       ELSE LET controller == NewControllerId(cleaned)
            IN [AbortController(cleaned, cleaned.translationControllerRef) EXCEPT
                   !.translationControllerRef = controller,
                   !.effectController = controller,
                   !.isTranslatingWord = TRUE,
                   !.translationError = None,
                   !.translatedWord = None,
                   !.requests[controller] =
                       [text |-> Val(s.selectedTextInfo).original,
                        lang |-> DefaultLanguage,
                        phase |-> "fetch",
                        aborted |-> FALSE],
                   !.infoChanged = FALSE]

\* the effect on [selectedTextInfo, selectedLanguage.code]: the cleanup of its
\* previous run, then its body, then the body of the reset effect that follows it
TranslationEffect(s) ==
    LET cleaned == AbortController(s, s.effectController)
    IN IF s.selectedTextInfo = None
       THEN [AbortController(cleaned, cleaned.translationControllerRef) EXCEPT
                !.translationControllerRef = 0,
                !.effectController = 0,
                !.isTranslatingWord = FALSE,
                !.translatedWord = None,
                !.detectedLanguage = None,
                !.translationError = None,
                !.infoChanged = FALSE]
       ELSE LET controller == NewControllerId(cleaned)
            IN [AbortController(cleaned, cleaned.translationControllerRef) EXCEPT
                   !.translationControllerRef = controller,
                   !.effectController = controller,
                   !.isTranslatingWord = TRUE,
                   !.translationError = None,
                   !.translatedWord = None,
                   !.requests[controller] =
                       [text |-> Val(s.selectedTextInfo).original,
                        lang |-> s.selectedLanguageCode,
                        phase |-> "fetch",
                        aborted |-> FALSE],
                   !.infoChanged = FALSE]

\* the effect on [scrapedData]
ScrapedDataEffect(s) ==
    [AbortController(s, s.translationControllerRef) EXCEPT
        !.translationControllerRef = 0,
        !.infoChanged = s.infoChanged \/ s.selectedTextInfo # None,
        !.selectedTextInfo = None,
        !.translatedWord = None,
        !.detectedLanguage = None,
        !.translationError = None,
        !.isTranslatingWord = FALSE]

\* the effects a commit of Space runs: the translation effect when one of its
\* dependencies changed since its last run
RunSpaceEffects(s) == IF s.infoChanged THEN TranslationEffect(s) ELSE s

\* whether RunSpaceEffects(s) creates a controller
IssuesRequest(s) == s.infoChanged /\ s.selectedTextInfo # None

\* Saving the notes (updateSpaceContent): the requests one save has sent, in
\* order, each with the status of its response (0 while it is awaited)
MethodNotAllowed == 405
Statuses == {200, 204, 404, MethodNotAllowed, 500}
IsOk(status) == status \in 200..299          \* response.ok

Payloads ==
    [id : {"s1", "s2"}, content : {<<>>, <<"a">>}, words : {<<>>, <<"b">>}]

NoPayload == [id |-> "", content |-> <<>>, words |-> <<>>]

NoSave == [pc |-> "idle", payload |-> NoPayload, requests |-> <<>>, status |-> "idle"]

\* sendUpdate: one fetch of `${API_URL}/spaces/${id}` with the payload as body
sendUpdate(save, method, payload) ==
    [save EXCEPT !.requests = @ \o <<[method |-> method, payload |-> payload, status |-> 0]>>]

\* the response of the request that is awaited arrives with 'status'
Answered(save, status) ==
    [save EXCEPT !.requests[Len(save.requests)].status = status]

\* handleResponse, then the mutation's onSuccess or onError
handleResponse(save, status, parses) ==
    [save EXCEPT !.pc = "done",
                 !.status = IF IsOk(status) /\ parses THEN "saved" ELSE "error"]

\* faulty variant: the fallback is tried after every failed PATCH
NeedsPutAfterAnyFailure(status) == ~IsOk(status)

\* response.status === 405
NeedsPut(status) == status = MethodNotAllowed

\* Scrape history and scrape cache of the page.  URLs are short strings; the
\* limit counts entries and the time to live counts ticks of the clock (the
\* source's values are 100 entries and 12 hours)
SCRAPE_HISTORY_LIMIT == 2
SCRAPE_CACHE_TTL == 1
MaxClock == 2
MaxScrapes == 1

UrlInputs == {<<"u">>, <<" ", "u">>, <<"v">>, <<"w">>, <<" ">>}

normalizeCacheKey(url) == Trim(url)

CacheKeys == {normalizeCacheKey(url) : url \in UrlInputs} \ {<<>>}

\* the entries JSON.parse may return for the stored history: strings and one
\* value that is not a string
StoredEntries ==
    {[isString |-> TRUE, value |-> url] : url \in UrlInputs}
    \cup {[isString |-> FALSE, value |-> <<>>]}

MaxStoredLen == 3

StoredLists == UNION {[1..n -> StoredEntries] : n \in 0..MaxStoredLen}

Contains(list, entry) == \E i \in 1..Len(list) : list[i] = entry

Take(list, n) == SubSeq(list, 1, IF Len(list) < n THEN Len(list) ELSE n)

\* the loop of loadScrapeHistory over the parsed entries
RECURSIVE Cleaned(_, _)
Cleaned(parsed, cleaned) ==
    IF parsed = <<>> \/ (cleaned # <<>> /\ Len(cleaned) >= SCRAPE_HISTORY_LIMIT) THEN cleaned
    ELSE LET entry == Head(parsed)
             normalized == normalizeCacheKey(entry.value)
         IN IF ~entry.isString \/ normalized = <<>> \/ Contains(cleaned, normalized)
            THEN Cleaned(Tail(parsed), cleaned)
            ELSE Cleaned(Tail(parsed), Append(cleaned, normalized))

loadScrapeHistory(parsed) == Cleaned(parsed, <<>>)

\* previous.filter((entry) => entry !== url)
RECURSIVE Without(_, _)
Without(list, url) ==
    IF list = <<>> THEN <<>>
    ELSE (IF Head(list) = url THEN <<>> ELSE <<Head(list)>>) \o Without(Tail(list), url)

\* faulty variant: the URL is put in front without removing its earlier entry
recordScrapeHistoryEntryKeepsOld(history, url) ==
    IF normalizeCacheKey(url) = <<>> THEN history
    ELSE Take(<<normalizeCacheKey(url)>> \o history, SCRAPE_HISTORY_LIMIT)

\* recordScrapeHistoryEntry: the history the state update returns
recordScrapeHistoryEntry(history, url) ==
    IF normalizeCacheKey(url) = <<>> THEN history
    ELSE Take(<<normalizeCacheKey(url)>> \o Without(history, normalizeCacheKey(url)),
              SCRAPE_HISTORY_LIMIT)

\* the page the backend scrapes at a URL
ScrapedDocument(key) == IF key = <<"v">> THEN 2 ELSE 1

CachedScrapeEntry(data, timestamp) == Some([data |-> data, timestamp |-> timestamp])

\* faulty variant: an entry is served whatever its age
IsExpiredNever(entry, now) == FALSE

\* Date.now() - entry.timestamp > SCRAPE_CACHE_TTL
IsExpired(entry, now) == now - entry.timestamp > SCRAPE_CACHE_TTL

\* Event listeners: how many listeners of each kind are registered on the
\* window (by the viewer) and on the document (by the menus of the page)
Listener(target, type, owner) == [target |-> target, type |-> type, owner |-> owner]

ViewerListeners == {Listener("window", type, "viewer") : type \in {"pointerup", "pointercancel"}}

MenuListeners(menu) ==
    {Listener("document", type, menu) : type \in {"mousedown", "touchstart", "keydown"}}

Menus == {"font", "language"}

ListenerKinds == ViewerListeners \cup MenuListeners("font") \cup MenuListeners("language")

addEventListener(listeners, kinds) ==
    [kind \in DOMAIN listeners |-> IF kind \in kinds THEN listeners[kind] + 1 ELSE listeners[kind]]

\* faulty variant: the pointercancel listener is never removed
removeEventListenerKeepsCancel(listeners, kinds) ==
    [kind \in DOMAIN listeners |->
        IF kind \in kinds /\ listeners[kind] > 0 /\ kind.type # "pointercancel"
        THEN listeners[kind] - 1 ELSE listeners[kind]]

removeEventListener(listeners, kinds) ==
    [kind \in DOMAIN listeners |->
        IF kind \in kinds /\ listeners[kind] > 0 THEN listeners[kind] - 1 ELSE listeners[kind]]

\* The spaces whose history the browser stores, each under its own key
SpaceNames == {"A", "B"}

\* Notes: the draft, the space document of the query cache and the mutations
ServerDocuments ==
    {[content |-> <<>>, words |-> <<>>],
     [content |-> << <<"a">> >>, words |-> <<>>],
     [content |-> << <<"a">>, <<"b">> >>, words |-> << <<"b">> >>]}

RECURSIVE JoinBlocks(_)
JoinBlocks(content) ==
    IF content = <<>> THEN <<>>
    ELSE IF Len(content) = 1 THEN Head(content)
    ELSE Head(content) \o <<"\n", "\n">> \o JoinBlocks(Tail(content))

getContentFromDocument(document) == JoinBlocks(document.content)

\* the effect on [spaceQuery.data]: setDraft(content) takes effect at the next
\* render, lastSyncedRef.current = content at once
QueryDataEffect(page) ==
    IF page.document = None THEN page
    ELSE LET content == getContentFromDocument(Val(page.document))
         IN  [page EXCEPT !.pendingDraft = IF page.draft = content THEN None ELSE Some(content),
                          !.lastSyncedRef = content]

\* the autosave effect on the draft: a draft that differs from the last-synced
\* text sets the status and arms the timer; the cleanup clears the timer
AutosaveEffect(page) ==
    IF page.document = None \/ page.draft = page.lastSyncedRef
    THEN [page EXCEPT !.saveTimer = FALSE]
    ELSE [page EXCEPT !.status = "saving", !.saveTimer = TRUE]

\* queryClient.setQueryData(["space", name], updated) and the effects of the
\* commit that shows the new document, in their order
setQueryData(page, updated) ==
    AutosaveEffect(QueryDataEffect([page EXCEPT !.document = Some(updated)]))

\* mutation.onSuccess
mutationOnSuccess(page, updated, text) ==
    setQueryData([page EXCEPT !.lastSyncedRef = text, !.status = "saved"], updated)

\* faulty variant: a failed save puts the last-synced text back into the draft
mutationOnErrorRevertsDraft(page) ==
    [page EXCEPT !.status = "error", !.toast = "save-error", !.draft = page.lastSyncedRef]

\* mutation.onError
mutationOnError(page) == [page EXCEPT !.status = "error", !.toast = "save-error"]

\* removeLinkMutation.onError and onSettled
removeLinkOnError(page, url) == [page EXCEPT !.toast = "link-error", !.linkMutation = None]

InitialPage ==
    [loaded |-> FALSE,
     scrapeHistory |-> <<>>,
     storedHistory |-> <<>>,
     lastRecorded |-> None,
     cache |-> [key \in CacheKeys |-> None],
     now |-> 0,
     scraping |-> <<>>,
     latestScrape |-> None,
     name |-> None,
     stores |-> [space \in SpaceNames |-> <<>>],
     writes |-> <<>>,
     toast |-> "none",
     document |-> None,
     draft |-> <<>>,
     pendingDraft |-> None,
     lastSyncedRef |-> <<>>,
     status |-> "idle",
     saveTimer |-> FALSE,
     pendingSave |-> None,
     wordMutation |-> None,
     linkMutation |-> None,
     audioFetch |-> None,
     audio |-> None,
     speaking |-> None,
     isPlayingPronunciation |-> FALSE,
     pronunciationError |-> None,
     mounted |-> TRUE,
     viewerMounted |-> FALSE,
     isFontMenuOpen |-> FALSE,
     isLanguageMenuOpen |-> FALSE,
     languageQuery |-> <<>>,
     listeners |-> [kind \in ListenerKinds |-> 0]]

InitialSpace(code) ==
    [scrapedData |-> 0,
     selectedLanguageCode |-> code,
     selectedTextInfo |-> None,
     translatedWord |-> None,
     detectedLanguage |-> None,
     isTranslatingWord |-> FALSE,
     translationError |-> None,
     translationControllerRef |-> 0,
     effectController |-> 0,
     infoChanged |-> FALSE,
     requests |-> [id \in RequestIds |-> NoRequest],
     save |-> NoSave,
     page |-> InitialPage]

\* the viewer's effect on [finalizeSelection] runs when the viewer mounts
ViewerMountEffect(s) ==
    IF s.page.viewerMounted THEN s
    ELSE [s EXCEPT !.page.viewerMounted = TRUE,
                   !.page.listeners = addEventListener(@, ViewerListeners)]

(***************************************************************************)
(* State                                                                   *)
(***************************************************************************)
VARIABLES
    viewer,    \* refs and state of NewsViewer; pending: what React still has
               \* to run for the last setScrapedData ("none" once rendered)
    space,     \* refs and state of Space, and the translateWord calls in flight
    observed   \* what the last step did: its onSelectionChange calls, and the
               \* handler whose applySelection call returned null

vars == <<viewer, space, observed>>

Call(by, text) == [by |-> by, text |-> text]
\* the handler whose applySelection call returned null, if one did
Missed(by, tokens, startKey, endKey) ==
    IF ResolveRange(tokens, startKey, endKey) = None THEN Some(by) ELSE None
Observed(calls, missed) == [calls |-> calls, missed |-> missed]

Mounted == space.scrapedData # 0
Quiet == viewer.pending = "none"

\* the keys of the tokens on screen (the last render of the current document)
RenderedKeys ==
    IF Mounted
    THEN {RegistryOf[space.scrapedData][i].key : i \in 1..Len(RegistryOf[space.scrapedData])}
    ELSE {}

\* a commit of Space can run its effects (a controller slot is free when needed)
CanCommit(s) == IssuesRequest(s) => FreeIds(s) # {}

\* Space handles the onSelectionChange calls of one viewer event
RECURSIVE Deliver(_, _)
Deliver(s, calls) ==
    IF calls = <<>> THEN s
    ELSE Deliver(handleSelectionChange(s, Head(calls).text), Tail(calls))

Init ==
    /\ viewer = InitialViewer
    /\ space = InitialSpace(DefaultLanguage)
    /\ observed = Observed(<<>>, None)

\* faulty variant: the effect resets the registry and leaves the selection
DataChangeEffectKeepsSelection(v) == [v EXCEPT !.tokenRegistry = <<>>]

\* the viewer's effect on [clearSelection, data], without the onSelectionChange call
DataChangeEffect(v) == [clearSelection(v) EXCEPT !.tokenRegistry = <<>>]

\* a step of the viewer: the new viewer state and its onSelectionChange calls go
\* to Space, Space commits, and the viewer renders again
ViewerStep(v, calls, missed) ==
    LET delivered == Deliver(space, calls)
    IN /\ CanCommit(delivered)
       /\ space' = RunSpaceEffects(delivered)
       /\ viewer' = RenderViewer(v, space.scrapedData)
       /\ observed' = Observed(calls, missed)

\* an event that returns before touching anything
Ignored ==
    /\ UNCHANGED <<viewer, space>>
    /\ observed' = Observed(<<>>, None)

\* handleScrape reaches setScrapedData(d): Space and the viewer render the new
\* document, the viewer's data effect and Space's scrapedData effect run, and
\* the state they set is rendered
ShowScrapedData(s, d) ==
    LET calls == <<Call("dataEffect", None)>>
        reset == ScrapedDataEffect(Deliver([s EXCEPT !.scrapedData = d], calls))
    IN /\ Quiet
       /\ CanCommit(reset)
       /\ space' = ViewerMountEffect(RunSpaceEffects(reset))
       /\ viewer' = RenderViewer(DataChangeEffect(RenderViewer(viewer, d)), d)
       /\ observed' = Observed(calls, None)

SetScrapedData(d) == ShowScrapedData(space, d)

\* onPointerDown of the token tokenKey; primary: pointer type mouse (button 0),
\* touch or pen
PointerDown(tokenKey, primary, shiftKey) ==
    /\ Mounted /\ Quiet
    /\ IF ~primary THEN Ignored
       ELSE IF ~shiftKey /\ viewer.selectionKeys = <<tokenKey>>
            THEN ViewerStep(clearSelection(viewer), <<Call("toggle", None)>>, None)
            ELSE ViewerStep(handlePointerDown(viewer, tokenKey, shiftKey), <<>>,
                            Missed("handlePointerDown", viewer.tokenRegistry,
                                    PointerDownAnchor(viewer, tokenKey, shiftKey), tokenKey))

\* onPointerEnter of the token tokenKey
PointerEnter(tokenKey) ==
    /\ Mounted /\ Quiet
    /\ IF ~viewer.pointerSelectingRef \/ viewer.anchorKeyRef = None
       THEN Ignored
       ELSE ViewerStep(applySelection(viewer, Val(viewer.anchorKeyRef), tokenKey), <<>>,
                       Missed("handlePointerEnter", viewer.tokenRegistry,
                               Val(viewer.anchorKeyRef), tokenKey))

\* the window listeners of pointerup (cancel = FALSE) and pointercancel
PointerUp(cancel) ==
    /\ Mounted /\ Quiet
    /\ cancel \in BOOLEAN
    /\ IF ~viewer.pointerSelectingRef
       THEN Ignored
       ELSE ViewerStep(finalizeSelection(viewer),
                       <<Call("finalizeSelection", LastNormalized(viewer))>>, None)

\* the onSelectionChange call of handleKeySelection
KeySelectionCall(v, tokenKey) ==
    LET result == ResolveRange(v.tokenRegistry, tokenKey, tokenKey)
    IN Call("handleKeySelection", IF result = None THEN None ELSE Val(result).normalized)

\* onKeyDown of the token tokenKey with Enter or Space
KeyActivate(tokenKey) ==
    /\ Mounted /\ Quiet
    /\ ViewerStep(handleKeySelection(viewer, tokenKey), <<KeySelectionCall(viewer, tokenKey)>>,
                  Missed("handleKeySelection", viewer.tokenRegistry, tokenKey, tokenKey))

\* onKeyDown of the token tokenKey with Escape
KeyEscape(tokenKey) ==
    /\ Mounted /\ Quiet
    /\ tokenKey \in RenderedKeys
    /\ ViewerStep(clearSelection(viewer), <<Call("escape", None)>>, None)

\* a language of the menu is chosen
LanguageSelect(code) ==
    LET chosen == handleLanguageSelect(space, code)
    IN /\ Quiet
       /\ CanCommit(chosen)
       /\ space' = RunSpaceEffects(chosen)
       /\ viewer' = IF Mounted THEN RenderViewer(viewer, space.scrapedData) ELSE viewer
       /\ observed' = Observed(<<>>, None)


(***************************************************************************)
(* translateWord and the then / catch / finally handlers of the effect     *)
(***************************************************************************)
\* the translatedText of the collaborator for (text, targetLanguage)
Translation(text, lang) == [of |-> Trim(text), lang |-> lang]

DetectedLanguages == {None, Some("en")}

\* error.message of a rejection that is not an AbortError
ErrorMessage == "Falha ao traduzir"

\* faulty variant: the loading state is ended only when the ref has already
\* been released
FinallyHandlerAfterRelease(s, id) ==
    IF s.translationControllerRef = 0
    THEN [s EXCEPT !.isTranslatingWord = FALSE,
                   !.requests[id] = NoRequest]
    ELSE [s EXCEPT !.requests[id] = NoRequest]

\* .finally: only the controller still held by the ref ends the loading state
FinallyHandler(s, id) ==
    IF s.translationControllerRef = id
    THEN [s EXCEPT !.translationControllerRef = 0,
                   !.isTranslatingWord = FALSE,
                   !.requests[id] = NoRequest]
    ELSE [s EXCEPT !.requests[id] = NoRequest]

\* .then
ThenHandler(s, id, detected) ==
    [s EXCEPT !.translatedWord = Some(Translation(s.requests[id].text, s.requests[id].lang)),
              !.detectedLanguage = detected]

\* .catch with an error that is not a DOMException named AbortError
CatchHandler(s, message) ==
    [s EXCEPT !.translationError = Some(message),
              !.translatedWord = None,
              !.detectedLanguage = None]

\* what translateWord's promise rejects with once its signal is aborted: fetch
\* and response.json() reject with the AbortError; the rejection of
\* response.text() is swallowed by .catch(() => "") and an Error is thrown
RejectionAfterAbort(phase) == IF phase = "errBody" THEN "Error" ELSE "AbortError"

Settled(s) ==
    /\ Quiet
    /\ space' = s
    /\ viewer' = IF Mounted THEN RenderViewer(viewer, space.scrapedData) ELSE viewer
    /\ observed' = Observed(<<>>, None)

\* the response headers of a live fetch arrive, with response.ok = ok
ResponseHeaders(id, ok) ==
    /\ space.requests[id].phase = "fetch"
    /\ ~space.requests[id].aborted
    /\ Settled([space EXCEPT !.requests[id].phase = IF ok THEN "okBody" ELSE "errBody"])

\* response.json() of a live request resolves and translateWord returns
RequestSucceeds(id, detected) ==
    /\ space.requests[id].phase = "okBody"
    /\ ~space.requests[id].aborted
    /\ Settled(FinallyHandler(ThenHandler(space, id, detected), id))

\* a live request fails: fetch or response.json() rejects, or the response is
\* not ok and translateWord throws
RequestFails(id) ==
    /\ space.requests[id].phase # "none"
    /\ ~space.requests[id].aborted
    /\ Settled(FinallyHandler(CatchHandler(space, ErrorMessage), id))

\* the promise of an aborted request rejects
AbortedRequestSettles(id) ==
    /\ space.requests[id].phase # "none"
    /\ space.requests[id].aborted
    /\ Settled(FinallyHandler(
                   IF RejectionAfterAbort(space.requests[id].phase) = "AbortError"
                   THEN space
                   ELSE CatchHandler(space, ErrorMessage), id))

ViewerEvent ==
    \/ \E k \in RenderedKeys, primary \in BOOLEAN, shiftKey \in BOOLEAN :
           PointerDown(k, primary, shiftKey)
    \/ \E k \in RenderedKeys : PointerEnter(k)
    \/ \E cancel \in BOOLEAN : PointerUp(cancel)
    \/ \E k \in RenderedKeys : KeyActivate(k)
    \/ \E k \in RenderedKeys : KeyEscape(k)

SpaceEvent ==
    \/ \E code \in Languages : LanguageSelect(code)
    \/ \E id \in RequestIds, ok \in BOOLEAN : ResponseHeaders(id, ok)
    \/ \E id \in RequestIds, detected \in DetectedLanguages : RequestSucceeds(id, detected)
    \/ \E id \in RequestIds : RequestFails(id)
    \/ \E id \in RequestIds : AbortedRequestSettles(id)

Next ==
    \/ \E d \in Documents : SetScrapedData(d)
    \/ ViewerEvent
    \/ SpaceEvent

Spec == Init /\ [][Next]_vars

TypeOK ==
    /\ space.scrapedData \in 0..Len(DocumentList)
    /\ Quiet => ~space.infoChanged
    /\ Len(observed.calls) <= 1


(***************************************************************************)
(* The commit of a new document, step by step.  React commits the render   *)
(* of setScrapedData(d) first and runs the passive effects later; the      *)
(* state they set is rendered later still.  A pointer or key event that    *)
(* arrives in between runs the handlers of the committed render.           *)
(***************************************************************************)
\* 'after' with the useState values of NewsViewer as the committed render holds them
KeepRenderedState(after, before) ==
    [after EXCEPT !.selectionKeys = before.selectionKeys,
                  !.selectionNormalized = before.selectionNormalized,
                  !.selectionBoundaries = before.selectionBoundaries,
                  !.selectionOriginalLabel = before.selectionOriginalLabel]

\* Space and the viewer have rendered document d; no effect has run yet
CommitScrapedData(d) ==
    /\ Quiet
    /\ viewer' = [RenderViewer(viewer, d) EXCEPT !.pending = "effects"]
    /\ space' = [space EXCEPT !.scrapedData = d]
    /\ observed' = Observed(<<>>, None)

\* the viewer's data effect and Space's scrapedData effect run: the refs are
\* reset and the registry is replaced by an empty one; the state they set is
\* not rendered yet
RunDataEffects ==
    /\ viewer.pending \in {"effects", "effects-now"}
    /\ viewer' = [KeepRenderedState(DataChangeEffect(viewer), viewer) EXCEPT
                     !.pending = IF viewer.pending = "effects" THEN "render" ELSE "render-now"]
    /\ space' = ViewerMountEffect(ScrapedDataEffect(Deliver(space, <<Call("dataEffect", None)>>)))
    /\ observed' = Observed(<<Call("dataEffect", None)>>, None)

\* the state the effects set is rendered
Rerender ==
    /\ viewer.pending \in {"render", "render-now"}
    /\ CanCommit(space)
    /\ viewer' = [RenderViewer(DataChangeEffect(viewer), space.scrapedData) EXCEPT
                     !.pending = "none"]
    /\ space' = RunSpaceEffects(space)
    /\ observed' = Observed(<<>>, None)

\* a handler of the committed render runs before the pending work; when it
\* sets state React runs the pending work before any other event (-now)
StaleEvent(v, calls, missed, setsState) ==
    /\ viewer.pending \in {"effects", "render"}
    /\ viewer' = [v EXCEPT !.pending = IF setsState
                                       THEN (IF viewer.pending = "effects"
                                             THEN "effects-now" ELSE "render-now")
                                       ELSE viewer.pending]
    /\ space' = Deliver(space, calls)
    /\ observed' = Observed(calls, missed)

StalePointerDown(tokenKey, shiftKey) ==
    IF ~shiftKey /\ viewer.selectionKeys = <<tokenKey>>
    THEN StaleEvent(clearSelection(viewer), <<Call("toggle", None)>>, None, TRUE)
    ELSE LET missed == Missed("handlePointerDown", viewer.tokenRegistry,
                              PointerDownAnchor(viewer, tokenKey, shiftKey), tokenKey)
         IN StaleEvent(handlePointerDown(viewer, tokenKey, shiftKey), <<>>, missed,
                       missed = None)

StalePointerEnter(tokenKey) ==
    /\ viewer.pointerSelectingRef
    /\ viewer.anchorKeyRef # None
    /\ LET missed == Missed("handlePointerEnter", viewer.tokenRegistry,
                            Val(viewer.anchorKeyRef), tokenKey)
       IN StaleEvent(applySelection(viewer, Val(viewer.anchorKeyRef), tokenKey), <<>>,
                     missed, missed = None)

StaleKeyActivate(tokenKey) ==
    StaleEvent(handleKeySelection(viewer, tokenKey), <<KeySelectionCall(viewer, tokenKey)>>,
               Missed("handleKeySelection", viewer.tokenRegistry, tokenKey, tokenKey), TRUE)

NextStale ==
    \/ \E d \in Documents : CommitScrapedData(d)
    \/ RunDataEffects
    \/ Rerender
    \/ \E k \in RenderedKeys, shiftKey \in BOOLEAN : StalePointerDown(k, shiftKey)
    \/ \E k \in RenderedKeys : StalePointerEnter(k)
    \/ \E k \in RenderedKeys : StaleKeyActivate(k)
    \/ ViewerEvent

SpecStale == Init /\ [][NextStale]_vars


(***************************************************************************)
(* Rendering (renderInteractiveText): the nodes one render pass returns    *)
(***************************************************************************)
TextBlock(text, keyPrefix) == [text |-> text, keyPrefix |-> keyPrefix]

RECURSIVE ListItemBlocks(_, _, _, _)
ListItemBlocks(items, sIndex, bIndex, iIndex) ==
    IF items = <<>> THEN <<>>
    ELSE <<TextBlock(Head(items), KeyPrefix("list", sIndex, bIndex, iIndex))>>
         \o ListItemBlocks(Tail(items), sIndex, bIndex, iIndex + 1)

RECURSIVE SectionBlocks(_, _, _)
SectionBlocks(blocks, sIndex, bIndex) ==
    IF blocks = <<>> THEN <<>>
    ELSE LET block == Head(blocks)
             here == IF block.type = "paragraph"
                     THEN <<TextBlock(block.text, KeyPrefix("paragraph", sIndex, bIndex, -1))>>
                     ELSE IF block.type = "list"
                          THEN ListItemBlocks(block.items, sIndex, bIndex, 0)
                          ELSE <<>>
         IN here \o SectionBlocks(Tail(blocks), sIndex, bIndex + 1)

RECURSIVE ArticleBlocks(_, _)
ArticleBlocks(sections, sIndex) ==
    IF sections = <<>> THEN <<>>
    ELSE LET section == Head(sections)
             heading == IF section.heading # <<>>
                        THEN <<TextBlock(section.heading, KeyPrefix("heading", sIndex, -1, -1))>>
                        ELSE <<>>
         IN heading \o SectionBlocks(section.blocks, sIndex, 0)
            \o ArticleBlocks(Tail(sections), sIndex + 1)

\* the calls of renderInteractiveText one render of 'data' makes, in order
DocumentBlocks(data) ==
    <<TextBlock(IF data.title # <<>> THEN data.title ELSE SemTitulo,
                KeyPrefix("headline", -1, -1, -1)),
      TextBlock(data.subtitle, KeyPrefix("subtitle", -1, -1, -1))>>
    \o ArticleBlocks(data.sections, 0)

WordsBefore(frags, i) == Cardinality({j \in 1..(i - 1) : ~frags[j].space})

\* the word and whitespace segments of one text block, the gaps with the keys
\* of the words of the block that precede and follow them
Segments(text, keyPrefix) ==
    LET frags == RawSegments(text)
        records == TokenRecords(frags, keyPrefix, 0)
    IN [i \in 1..Len(frags) |->
          IF frags[i].space
          THEN [type |-> "whitespace",
                key |-> [prefix |-> keyPrefix, gap |-> frags[i].fragmentIndex],
                value |-> frags[i].value,
                prevWordKey |-> IF WordsBefore(frags, i) = 0 THEN None
                                ELSE Some(WordKey(keyPrefix, WordsBefore(frags, i) - 1)),
                nextWordKey |-> IF \E j \in (i + 1)..Len(frags) : ~frags[j].space
                                THEN Some(WordKey(keyPrefix, WordsBefore(frags, i)))
                                ELSE None,
                leading |-> <<>>,
                trailing |-> <<>>]
          ELSE [type |-> "word",
                key |-> records[WordsBefore(frags, i) + 1].key,
                value |-> frags[i].value,
                prevWordKey |-> None,
                nextWordKey |-> None,
                leading |-> records[WordsBefore(frags, i) + 1].leading,
                trailing |-> records[WordsBefore(frags, i) + 1].trailing]]

hasActiveTranslation(v, s) ==
    /\ v.selectionNormalized # None
    /\ s.selectedTextInfo # None
    /\ s.translatedWord # None
    /\ Val(s.selectedTextInfo).normalized = Val(v.selectionNormalized)
    /\ ~s.isTranslatingWord

selectionKeySet(v) == {v.selectionKeys[i] : i \in 1..Len(v.selectionKeys)}

\* segment.value.split("\n")
RECURSIVE SplitOnNewline(_)
SplitOnNewline(value) ==
    IF \A i \in 1..Len(value) : value[i] # "\n" THEN <<value>>
    ELSE LET at == CHOOSE i \in 1..Len(value) :
                       value[i] = "\n" /\ \A j \in 1..(i - 1) : value[j] # "\n"
         IN <<SubSeq(value, 1, at - 1)>> \o SplitOnNewline(SubSeq(value, at + 1, Len(value)))

WordNode(key, before, translation, after) ==
    [type |-> "word", key |-> Some(key), before |-> before, translation |-> translation,
     after |-> after]
GapNode(part) ==
    [type |-> "gap", key |-> None, before |-> part, translation |-> None, after |-> <<>>]
BrNode == [type |-> "br", key |-> None, before |-> <<>>, translation |-> None, after |-> <<>>]

\* the <br/> and gap spans of one whitespace segment
GapNodes(value) ==
    LET parts == SplitOnNewline(value)
    IN Concat([p \in 1..Len(parts) |->
                  (IF p > 1 THEN <<BrNode>> ELSE <<>>)
                  \o (IF parts[p] # <<>> THEN <<GapNode(parts[p])>> ELSE <<>>)])

\* faulty variant: a gap between selected words is dropped whether or not a
\* translation is shown
GapHiddenWhenSelected(segment, v, s) ==
    /\ segment.prevWordKey # None
    /\ segment.nextWordKey # None
    /\ Val(segment.prevWordKey) \in selectionKeySet(v)
    /\ Val(segment.nextWordKey) \in selectionKeySet(v)

\* the early return of a whitespace segment
GapHidden(segment, v, s) ==
    /\ hasActiveTranslation(v, s)
    /\ segment.prevWordKey # None
    /\ segment.nextWordKey # None
    /\ Val(segment.prevWordKey) \in selectionKeySet(v)
    /\ Val(segment.nextWordKey) \in selectionKeySet(v)

\* faulty variant: every selected word shows the translation
showInlineTranslationEverySelected(segment, v, s) ==
    segment.key \in selectionKeySet(v) /\ hasActiveTranslation(v, s)

showInlineTranslation(segment, v, s) ==
    /\ segment.key \in selectionKeySet(v)
    /\ v.selectionKeys[1] = segment.key
    /\ hasActiveTranslation(v, s)

\* the nodes segments.forEach pushes for one segment
RenderSegment(segment, v, s) ==
    IF segment.type = "whitespace"
    THEN IF GapHidden(segment, v, s) THEN <<>> ELSE GapNodes(segment.value)
    ELSE IF /\ segment.key \in selectionKeySet(v)
            /\ hasActiveTranslation(v, s)
            /\ ~showInlineTranslation(segment, v, s)
         THEN <<>>
         ELSE IF showInlineTranslation(segment, v, s)
              THEN <<WordNode(segment.key, segment.leading, s.translatedWord, segment.trailing)>>
              ELSE <<WordNode(segment.key, segment.value, None, <<>>)>>

\* the nodes renderInteractiveText returns for one text block
renderInteractiveText(text, keyPrefix, v, s) ==
    LET segments == Segments(text, keyPrefix)
    IN Concat([i \in 1..Len(segments) |-> RenderSegment(segments[i], v, s)])

(***************************************************************************)
(* The viewer over the bounded texts: one text is scraped, then the user   *)
(* selects in it                                                           *)
(***************************************************************************)
LoadText(d) == ~Mounted /\ SetScrapedData(d)

NextText ==
    \/ \E d \in TextDocuments : LoadText(d)
    \/ ViewerEvent

SpecText == Init /\ [][NextText]_vars

(***************************************************************************)
(* The viewer and its coordinator over the texts that exercise rendering:  *)
(* a leading gap, a line break between two words, a punctuation token      *)
(***************************************************************************)
RenderTexts == {<<" ", "a">>, <<"a", "\n", "a">>, <<"a", " ", ",">>}

RenderDocuments == {d \in TextDocuments : AllDocuments[d].subtitle \in RenderTexts}

NextRender ==
    \/ \E d \in RenderDocuments : LoadText(d)
    \/ ViewerEvent
    \/ SpaceEvent

SpecRender == Init /\ [][NextRender]_vars

(***************************************************************************)
(* Saving the notes: the steps of one call of updateSpaceContent           *)
(***************************************************************************)
SaveStep(save) ==
    /\ space' = [space EXCEPT !.save = save]
    /\ UNCHANGED <<viewer, observed>>

\* mutation.mutate: updateSpaceContent sends the PATCH
StartSave(payload) ==
    /\ space.save.pc \in {"idle", "done"}
    /\ SaveStep(sendUpdate([NoSave EXCEPT !.pc = "patch", !.payload = payload,
                                          !.status = "saving"],
                           "PATCH", payload))

\* the PATCH is answered: a 405 sends the PUT, anything else goes to handleResponse
PatchAnswered(status, parses) ==
    /\ space.save.pc = "patch"
    /\ LET answered == Answered(space.save, status)
       IN IF NeedsPut(status)
          THEN SaveStep(sendUpdate([answered EXCEPT !.pc = "put"], "PUT", space.save.payload))
          ELSE SaveStep(handleResponse(answered, status, parses))

\* the PUT is answered: its response goes to handleResponse
PutAnswered(status, parses) ==
    /\ space.save.pc = "put"
    /\ SaveStep(handleResponse(Answered(space.save, status), status, parses))

\* fetch rejects (no response): updateSpaceContent rejects with that error
FetchRejects ==
    /\ space.save.pc \in {"patch", "put"}
    /\ SaveStep([space.save EXCEPT !.pc = "done", !.status = "error"])

NextSave ==
    \/ \E payload \in Payloads : StartSave(payload)
    \/ \E status \in Statuses, parses \in BOOLEAN : PatchAnswered(status, parses)
    \/ \E status \in Statuses, parses \in BOOLEAN : PutAnswered(status, parses)
    \/ FetchRejects

SpecSave == Init /\ [][NextSave]_vars

(***************************************************************************)
(* The translation service answers or fails every request                  *)
(***************************************************************************)
\* one step of the promise of request id: headers, body, rejection
Answer(id) ==
    \/ \E ok \in BOOLEAN : ResponseHeaders(id, ok)
    \/ \E detected \in DetectedLanguages : RequestSucceeds(id, detected)
    \/ RequestFails(id)
    \/ AbortedRequestSettles(id)

\* the session over the one-token document
LiveDocuments == {d \in Documents : Len(RegistryOf[d]) = 1}

NextLive ==
    \/ \E d \in LiveDocuments : SetScrapedData(d)
    \/ ViewerEvent
    \/ SpaceEvent

SpecLive == Init /\ [][NextLive]_vars /\ \A id \in RequestIds : WF_vars(Answer(id))

(***************************************************************************)
(* Scraping: the history of scraped URLs and the cache of scraped pages    *)
(***************************************************************************)
\* the effect on [name, scrapeHistory] stores the history after every change
saveScrapeHistory(page) ==
    [page EXCEPT !.storedHistory = Take(page.scrapeHistory, SCRAPE_HISTORY_LIMIT)]

PageStep(page) ==
    /\ space' = [space EXCEPT !.page = saveScrapeHistory(page)]
    /\ UNCHANGED <<viewer, observed>>

\* the effect on [name] loads the stored history when the page is opened
LoadHistory(parsed) ==
    /\ ~space.page.loaded
    /\ PageStep([space.page EXCEPT !.loaded = TRUE,
                                   !.scrapeHistory = loadScrapeHistory(parsed),
                                   !.lastRecorded = None])

\* the page after setScrapedData's companion calls for a scrape of 'key'
Recorded(page, key, toast) ==
    saveScrapeHistory([page EXCEPT !.scrapeHistory = recordScrapeHistoryEntry(@, key),
                                   !.lastRecorded = Some(key),
                                   !.toast = toast])

RemoveAt(list, i) == SubSeq(list, 1, i - 1) \o SubSeq(list, i + 1, Len(list))

\* the scrape request made last: its URL, whether it still awaits the backend
\* and whether it failed
LatestScrape(url, pending) == Some([url |-> url, pending |-> pending, failed |-> FALSE])

\* the request at position i of the requests in flight completes
Completed(page, i, failed) ==
    IF page.latestScrape # None /\ Val(page.latestScrape).pending /\ i = Len(page.scraping)
    THEN [page EXCEPT !.latestScrape = Some([Val(@) EXCEPT !.pending = FALSE,
                                                           !.failed = failed]),
                      !.scraping = RemoveAt(@, i)]
    ELSE [page EXCEPT !.scraping = RemoveAt(@, i)]

\* handleScrape up to its await, with at most 'limit' requests in flight
HandleScrapeWithin(targetUrl, limit) ==
    /\ space.page.loaded
    /\ LET url == normalizeCacheKey(targetUrl)
           entry == space.page.cache[url]
       IN IF url = <<>> THEN UNCHANGED vars
          ELSE IF entry # None /\ ~IsExpired(Val(entry), space.page.now)
          THEN ShowScrapedData(
                   [space EXCEPT !.page = Recorded([space.page EXCEPT
                                                       !.latestScrape = LatestScrape(url, FALSE)],
                                                   url, "cache")],
                   Val(entry).data)
          ELSE /\ Len(space.page.scraping) < limit
               /\ PageStep([space.page EXCEPT !.cache[url] = None,
                                              !.scraping = Append(@, url),
                                              !.latestScrape = LatestScrape(url, TRUE)])

HandleScrape(targetUrl) == HandleScrapeWithin(targetUrl, MaxScrapes)

\* scrapeUrl resolves: the page is shown, cached with the current time and recorded
ScrapeSucceeds(i) ==
    /\ i \in 1..Len(space.page.scraping)
    /\ LET url == space.page.scraping[i]
           data == ScrapedDocument(url)
           page == [Completed(space.page, i, FALSE) EXCEPT
                       !.cache[url] = CachedScrapeEntry(data, space.page.now)]
       IN ShowScrapedData([space EXCEPT !.page = Recorded(page, url, "scraped")], data)

\* scrapeUrl rejects: only the error notification
ScrapeFails(i) ==
    /\ i \in 1..Len(space.page.scraping)
    /\ PageStep([Completed(space.page, i, TRUE) EXCEPT !.toast = "error"])

\* time passes
Tick ==
    /\ space.page.now < MaxClock
    /\ PageStep([space.page EXCEPT !.now = @ + 1])

\* removeLinkMutation.onSuccess and onSettled
RemoveLinkSucceeds(url, updated) ==
    /\ space.page.loaded
    /\ PageStep(setQueryData([space.page EXCEPT !.scrapeHistory = Without(@, url),
                                                !.toast = "removed",
                                                !.linkMutation = None],
                             updated))

NextHistory ==
    \/ \E parsed \in StoredLists : LoadHistory(parsed)
    \/ \E url \in UrlInputs : HandleScrape(url)
    \/ \E i \in 1..MaxScrapes : ScrapeSucceeds(i)
    \/ \E i \in 1..MaxScrapes : ScrapeFails(i)
    \/ Tick
    \/ \E url \in UrlInputs, updated \in ServerDocuments : RemoveLinkSucceeds(url, updated)

SpecHistory == Init /\ [][NextHistory]_vars

(***************************************************************************)
(* Properties                                                              *)
(***************************************************************************)
InFlight(s, id) == s.requests[id].phase # "none"
Live(s, id) == InFlight(s, id) /\ ~s.requests[id].aborted
Cancelled(s, id) == InFlight(s, id) /\ s.requests[id].aborted

\* the translation state the page displays
Displayed(s) ==
    <<s.translatedWord, s.detectedLanguage, s.translationError, s.isTranslatingWord>>

\* no active selection and nothing displayed
TranslationEmpty(s) ==
    /\ s.selectedTextInfo = None
    /\ Displayed(s) = <<None, None, None, FALSE>>

\* the state of the viewer after a clear
SelectionCleared(v) ==
    /\ v.selectionKeys = <<>>
    /\ v.selectionNormalized = None
    /\ v.anchorKeyRef = None
    /\ ~v.pointerSelectingRef

IsSlice(keys, all) ==
    \/ keys = <<>>
    \/ \E i \in 1..Len(all) : \E j \in i..Len(all) : keys = SubSeq(all, i, j)

\* C1: when the request of an earlier selection settles while a later
\* selection is active, the translated text, the detected language, the error
\* and the loading flag stay as they were.
\* Violated: the promise of a request aborted while response.text() of a
\* non-ok response is pending rejects with an Error, and .catch sets the error.
C1_StaleCompletionChangesNothing ==
    [][\A id \in RequestIds :
          (/\ InFlight(space, id)
           /\ space.translationControllerRef # id
           /\ space.selectedTextInfo # None
           /\ ~InFlight(space', id))
          => Displayed(space') = Displayed(space)]_vars

\* C2: at most one request is live (issued and not aborted) in every state, and
\* it is the one the controller ref holds; every other request still in flight
\* has been aborted.
C2_AtMostOneLiveRequest ==
    /\ Cardinality({id \in RequestIds : Live(space, id)}) <= 1
    /\ \A id \in RequestIds : Live(space, id) => space.translationControllerRef = id

\* a new request is live while the aborted request of the previous selection
\* has not settled yet
C2_Witness ==
    \E id \in RequestIds, old \in RequestIds :
        /\ Live(space, id)
        /\ Cancelled(space, old)
        /\ space.selectedTextInfo # None

\* C3: Escape or toggle-off while a request is in flight aborts it and leaves
\* no selection, no translated text, no detected language, no error and the
\* loading flag off; the later settlement of an aborted request keeps the
\* empty state empty.
\* Violated by the settlement of C1.
C3_ClearCancelsQuietly ==
    [][/\ \A k \in RenderedKeys :
             (/\ \E id \in RequestIds : Live(space, id)
              /\ \/ KeyEscape(k)
                 \/ viewer.selectionKeys = <<k>> /\ PointerDown(k, TRUE, FALSE))
             => /\ \A id \in RequestIds : InFlight(space, id) => Cancelled(space', id)
                /\ TranslationEmpty(space')
                /\ SelectionCleared(viewer')
       /\ \A id \in RequestIds :
             (Cancelled(space, id) /\ TranslationEmpty(space) /\ ~InFlight(space', id))
             => TranslationEmpty(space')]_vars

\* C4: a live request that fails sets the error, leaves translated text and
\* detected language null and keeps the selection (selected text and viewer
\* keys); the settlement of an aborted request leaves the error as it was.
\* Violated by the settlement of C1.
C4_FailureSetsErrorCancellationDoesNot ==
    [][\A id \in RequestIds :
          /\ RequestFails(id)
             => /\ space'.translationError # None
                /\ space'.translatedWord = None
                /\ space'.detectedLanguage = None
                /\ space.selectedTextInfo # None
                /\ space'.selectedTextInfo = space.selectedTextInfo
                /\ viewer'.selectionKeys = viewer.selectionKeys
          /\ AbortedRequestSettles(id)
             => space'.translationError = space.translationError]_vars

\* C5: choosing another language while a selection is active aborts the
\* requests in flight, issues a live request for the same selected text with
\* the chosen language, and clears the translated text; a displayed
\* translation is always one for the selected language.
C5_LanguageSwitchRetranslates ==
    /\ [][\A code \in Languages :
             (/\ code # space.selectedLanguageCode
              /\ space.selectedTextInfo # None
              /\ LanguageSelect(code))
             => /\ \A id \in RequestIds : InFlight(space, id) => Cancelled(space', id)
                /\ \E id \in RequestIds :
                      /\ ~InFlight(space, id)
                      /\ Live(space', id)
                      /\ space'.translationControllerRef = id
                      /\ space'.requests[id].text = Val(space.selectedTextInfo).original
                      /\ space'.requests[id].lang = code
                /\ space'.selectedTextInfo = space.selectedTextInfo
                /\ space'.selectedLanguageCode = code
                /\ space'.translatedWord = None]_vars
    /\ [](space.translatedWord # None
          => Val(space.translatedWord).lang = space.selectedLanguageCode)

\* the request of the active selection is live for a language other than the
\* initial one while the aborted request of the old language is in flight
C5_Witness ==
    \E id \in RequestIds, old \in RequestIds :
        /\ space.selectedTextInfo # None
        /\ Live(space, id)
        /\ space.requests[id].text = Val(space.selectedTextInfo).original
        /\ space.requests[id].lang = space.selectedLanguageCode
        /\ space.selectedLanguageCode # DefaultLanguage
        /\ Cancelled(space, old)
        /\ space.translatedWord = None

C7_DataChangeClearsEverything ==
    [][(\E d \in Documents : SetScrapedData(d))
       => /\ SelectionCleared(viewer')
          /\ viewer'.lastSelectionRef = None
          /\ Len(observed'.calls) = 1
          /\ observed'.calls[1].text = None
          /\ \A id \in RequestIds : InFlight(space, id) => Cancelled(space', id)
          /\ \A id \in RequestIds : ~Live(space', id)
          /\ space'.translationControllerRef = 0
          /\ TranslationEmpty(space')]_vars

\* the data effect has just run and the request it aborted has not settled
C7_Witness ==
    /\ observed.calls = <<Call("dataEffect", None)>>
    /\ \E id \in RequestIds : Cancelled(space, id)
    /\ SelectionCleared(viewer)
    /\ TranslationEmpty(space)

\* C8: a handler whose range resolution finds the registry empty or a key
\* absent returns with selection keys, normalized phrase, boundaries and
\* last-selection snapshot as they were; after handlePointerDown the viewer is
\* not selecting and holds no anchor.
C8_FailedResolutionChangesNothing ==
    [][observed'.missed # None
       => /\ viewer'.selectionKeys = viewer.selectionKeys
          /\ viewer'.selectionNormalized = viewer.selectionNormalized
          /\ viewer'.selectionBoundaries = viewer.selectionBoundaries
          /\ viewer'.lastSelectionRef = viewer.lastSelectionRef
          /\ observed'.missed = Some("handlePointerDown")
             => ~viewer'.pointerSelectingRef /\ viewer'.anchorKeyRef = None]_vars

\* a shift pointer-down whose anchor, the first key of the displayed
\* selection, is not in the registry of the new document
C8_Witness ==
    /\ observed.missed = Some("handlePointerDown")
    /\ viewer.selectionKeys # <<>>
    /\ viewer.tokenRegistry # <<>>
    /\ FindIndex(viewer.tokenRegistry, viewer.selectionKeys[1]) = 0

\* C9: pointer-down without shift on token T while the selection is exactly
\* <<T>> clears the selection (no keys, no normalized phrase, no anchor, not
\* selecting) and emits null once.
C9_ToggleOffClears ==
    [][(/\ Len(viewer.selectionKeys) = 1
        /\ PointerDown(viewer.selectionKeys[1], TRUE, FALSE))
       => /\ SelectionCleared(viewer')
          /\ Len(observed'.calls) = 1
          /\ observed'.calls[1].text = None
          /\ space'.selectedTextInfo = None]_vars

\* the toggle-off has just cleared a selection
C9_Witness ==
    /\ observed.calls = <<Call("toggle", None)>>
    /\ SelectionCleared(viewer)

\* C10: pointerup or pointercancel while selecting ends the selecting state,
\* unsets the anchor, keeps the range and emits the normalized phrase of the
\* range once; while not selecting it emits nothing and changes neither the
\* viewer nor the translation state.
C10_PointerUpFinalizes ==
    [][(\E cancel \in BOOLEAN : PointerUp(cancel))
       => IF viewer.pointerSelectingRef
          THEN /\ ~viewer'.pointerSelectingRef
               /\ viewer'.anchorKeyRef = None
               /\ viewer'.selectionKeys = viewer.selectionKeys
               /\ viewer'.selectionNormalized = viewer.selectionNormalized
               /\ observed'.calls = <<Call("finalizeSelection", viewer.selectionNormalized)>>
          ELSE /\ observed'.calls = <<>>
               /\ UNCHANGED <<viewer, space>>]_vars

\* a drag over several tokens has just been finalized
C10_Witness ==
    /\ observed.calls # <<>>
    /\ observed.calls[1].by = "finalizeSelection"
    /\ observed.calls[1].text # None
    /\ Len(viewer.selectionKeys) >= 2
    /\ ~viewer.pointerSelectingRef

\* the keys of the registry from the earlier to the later of the two keys
SliceKeys(tokens, a, b) ==
    LET i == FindIndex(tokens, a)
        j == FindIndex(tokens, b)
        lo == IF i <= j THEN i ELSE j
        hi == IF i <= j THEN j ELSE i
    IN [n \in 1..(hi - lo + 1) |-> tokens[lo + n - 1].key]

\* tokens.find((item) => item.key === key)
TokenOf(tokens, key) == tokens[FindIndex(tokens, key)]

\* C11: pointer-enter on token T while selecting sets the keys to the slice
\* between the anchor and T, whichever comes first, and keeps the anchor and
\* the selecting state; while not selecting it changes nothing in the viewer;
\* either way no phrase is emitted and the translation state and its requests
\* stay as they were.
C11_PointerEnterExtendsRange ==
    [][\A i \in 1..Len(viewer.tokenRegistry) :
          PointerEnter(viewer.tokenRegistry[i].key)
          => /\ observed'.calls = <<>>
             /\ space' = space
             /\ IF viewer.pointerSelectingRef /\ viewer.anchorKeyRef # None
                THEN /\ viewer'.selectionKeys =
                            SliceKeys(viewer.tokenRegistry, Val(viewer.anchorKeyRef),
                                      viewer.tokenRegistry[i].key)
                     /\ viewer'.anchorKeyRef = viewer.anchorKeyRef
                     /\ viewer'.pointerSelectingRef
                ELSE viewer' = viewer]_vars

\* a drag backward past the anchor: the anchor is the last key of the range
C11_Witness ==
    /\ viewer.pointerSelectingRef
    /\ viewer.anchorKeyRef # None
    /\ Len(viewer.selectionKeys) >= 2
    /\ Val(viewer.anchorKeyRef) = viewer.selectionKeys[Len(viewer.selectionKeys)]
    /\ observed.calls = <<>>

\* C12: outside the toggle-off case, pointer-down on token T with shift and a
\* non-empty selection makes the first key of that selection the anchor, and
\* otherwise makes T the anchor; the viewer is selecting and the keys are the
\* slice between the anchor and T, which is <<T>> without shift.
C12_PointerDownSetsAnchorAndRange ==
    [][\A i \in 1..Len(viewer.tokenRegistry), shiftKey \in BOOLEAN :
          LET T == viewer.tokenRegistry[i].key
              anchor == IF shiftKey /\ viewer.selectionKeys # <<>>
                        THEN viewer.selectionKeys[1] ELSE T
          IN (/\ shiftKey \/ viewer.selectionKeys # <<T>>
              /\ PointerDown(T, TRUE, shiftKey))
             => /\ viewer'.anchorKeyRef = Some(anchor)
                /\ viewer'.pointerSelectingRef
                /\ viewer'.selectionKeys = SliceKeys(viewer.tokenRegistry, anchor, T)
                /\ ~shiftKey => viewer'.selectionKeys = <<T>>]_vars

\* a selection of one token was finalized and a pointer-down has extended it
\* from that token
C12_Witness ==
    /\ viewer.pointerSelectingRef
    /\ Len(viewer.selectionKeys) >= 2
    /\ viewer.anchorKeyRef = Some(viewer.selectionKeys[1])
    /\ space.selectedTextInfo # None
    /\ Val(space.selectedTextInfo).original =
           TokenOf(viewer.tokenRegistry, viewer.selectionKeys[1]).normalized

\* C13: Enter or Space on token T sets the keys to <<T>>, leaves the viewer not
\* selecting with no anchor, and emits once the normalized form of T, null when
\* it is empty; a non-empty phrase becomes the selected text at once.
C13_KeyActivateSelectsAndEmits ==
    [][\A i \in 1..Len(viewer.tokenRegistry) :
          LET T == viewer.tokenRegistry[i] IN
          (/\ observed'.calls # <<>>
           /\ observed'.calls[1].by = "handleKeySelection"
           /\ KeyActivate(T.key))
          => /\ viewer'.selectionKeys = <<T.key>>
             /\ ~viewer'.pointerSelectingRef
             /\ viewer'.anchorKeyRef = None
             /\ Len(observed'.calls) = 1
             /\ observed'.calls[1].text =
                    (IF T.normalized = <<>> THEN None ELSE Some(T.normalized))
             /\ (T.normalized # <<>>) = (space'.selectedTextInfo # None)]_vars

\* a key activation during a drag has just emitted a phrase
C13_Witness ==
    /\ observed.calls # <<>>
    /\ observed.calls[1].by = "handleKeySelection"
    /\ observed.calls[1].text # None
    /\ Len(viewer.selectionKeys) = 1
    /\ ~viewer.pointerSelectingRef
    /\ space.isTranslatingWord


\* C14: resolution is symmetric in its end points: for any two keys A and B
\* of the registry, resolving (A, B) and resolving (B, A) both succeed and give
\* the same keys, in registry order, and the same normalized phrase
C14_ResolutionIsSymmetric ==
    \A i, j \in 1..Len(viewer.tokenRegistry) :
        LET A == viewer.tokenRegistry[i].key
            B == viewer.tokenRegistry[j].key
            ab == ResolveRange(viewer.tokenRegistry, A, B)
            ba == ResolveRange(viewer.tokenRegistry, B, A)
        IN /\ ab # None
           /\ ba # None
           /\ Val(ab).keys = Val(ba).keys
           /\ Val(ab).keys = SliceKeys(viewer.tokenRegistry, A, B)
           /\ Val(ab).normalized = Val(ba).normalized

\* a backward drag over three tokens of a scraped text: the anchor is the last
\* key of the range, and the phrase joins the words in registry order
C14_Witness ==
    /\ space.scrapedData \in TextDocuments
    /\ Len(viewer.selectionKeys) = 3
    /\ viewer.anchorKeyRef = Some(viewer.selectionKeys[3])
    /\ viewer.selectionNormalized = Some(<<"a", " ", "-", " ", "a">>)

\* the text the subtitle block of the scraped document hands to renderInteractiveText
SubtitleText == AllDocuments[space.scrapedData].subtitle

IsSubtitleToken(record) == record.key.prefix.kind = "subtitle"

\* the records the subtitle block registered, in order
SubtitleTokens == SelectSeq(viewer.tokenRegistry, IsSubtitleToken)

\* each token's text followed by its recorded separatorAfter, in token order
TokensWithSeparators(tokens) ==
    Concat([i \in 1..Len(tokens) |-> tokens[i].token \o tokens[i].separatorAfter])

\* C18 as stated: for every text T, concatenating each token's text followed by
\* its separatorAfter, in token order, reproduces T exactly
C18_RoundTripEveryText ==
    Mounted => TokensWithSeparators(SubtitleTokens) = SubtitleText

\* C18: for every text T that does not begin with whitespace, concatenating
\* each token's text followed by its separatorAfter, in token order, reproduces
\* T exactly (a leading whitespace gap precedes every token, so no record holds it)
C18_RoundTripWithoutLeadingGap ==
    (Mounted /\ (SubtitleText = <<>> \/ ~IsSpace(SubtitleText[1])))
    => TokensWithSeparators(SubtitleTokens) = SubtitleText

\* a rendered text of one token followed by a line break and a blank
C18_Witness ==
    /\ space.scrapedData \in TextDocuments
    /\ Len(SubtitleTokens) = 1
    /\ SubtitleTokens[1].token = <<"a">>
    /\ SubtitleTokens[1].separatorAfter = <<"\n", " ">>

\* the positions of a token that hold a letter, number, apostrophe or hyphen
WordPositions(token) == {i \in 1..Len(token) : token[i] \in WordChars}

FirstWordPosition(token) ==
    CHOOSE i \in WordPositions(token) : \A j \in WordPositions(token) : i <= j

LastWordPosition(token) ==
    CHOOSE i \in WordPositions(token) : \A j \in WordPositions(token) : j <= i

\* C19: the normalized form of every token is the token without its maximal
\* leading run and its maximal trailing run of characters that are not letters,
\* numbers, apostrophes or hyphens, the interior left as it is; leading and
\* trailing are those two runs, and a token with a non-empty normalized form is
\* leading + normalized + trailing
C19_NormalizationStripsOuterRuns ==
    \A i \in 1..Len(viewer.tokenRegistry) :
        LET record == viewer.tokenRegistry[i]
            token == record.token
        IN IF WordPositions(token) = {}
           THEN /\ record.normalized = <<>>
                /\ record.leading = token
                /\ record.trailing = token
           ELSE /\ record.normalized
                     = SubSeq(token, FirstWordPosition(token), LastWordPosition(token))
                /\ record.leading = SubSeq(token, 1, FirstWordPosition(token) - 1)
                /\ record.trailing = SubSeq(token, LastWordPosition(token) + 1, Len(token))
                /\ token = record.leading \o record.normalized \o record.trailing

\* a scraped text whose token has a boundary character on both sides
C19_Witness ==
    /\ \E i \in 1..Len(viewer.tokenRegistry) :
          /\ viewer.tokenRegistry[i].token = <<",", "a", ",">>
          /\ viewer.tokenRegistry[i].normalized = <<"a">>
    /\ space.scrapedData \in TextDocuments

\* the letters (and numbers) among the word characters
LetterChars == WordChars \ {"'", "-"}

\* the selection is one token of the rendered registry
SingleTokenSelected == Mounted /\ Len(viewer.selectionKeys) = 1

SelectedToken == TokenOf(viewer.tokenRegistry, viewer.selectionKeys[1]).token

\* what the last event left behind when the selection carries nothing to
\* translate: a null normalized value, and, if the selection was emitted, a null
\* phrase, no selected text and no request in flight
NothingToTranslate ==
    /\ viewer.selectionNormalized = None
    /\ observed.calls # <<>>
       => /\ \A c \in 1..Len(observed.calls) : observed.calls[c].text = None
          /\ space.selectedTextInfo = None
          /\ \A id \in RequestIds : ~Live(space, id)

\* C17 as stated: selecting a single token that consists only of punctuation
\* (no letter and no number, such as "--") yields a null normalized value and
\* issues no translation request
C17_PunctuationOnlyTokenIsNull ==
    (SingleTokenSelected /\ \A i \in 1..Len(SelectedToken) : SelectedToken[i] \notin LetterChars)
    => NothingToTranslate

\* C17: selecting a single token that consists only of characters other than
\* letters, numbers, apostrophes and hyphens (such as "!!") yields a null
\* normalized value and issues no translation request
C17_BoundaryOnlyTokenIsNull ==
    (SingleTokenSelected /\ WordPositions(SelectedToken) = {})
    => NothingToTranslate

\* the token "!!" has been selected and emitted as a null phrase
C17_Witness ==
    /\ SingleTokenSelected
    /\ SelectedToken = <<"!", "!">>
    /\ observed.calls # <<>>
    /\ observed.calls[1].text = None
    /\ Quiet

\* the segments of every text block of the scraped document, in render order
DocumentSegments ==
    LET blocks == DocumentBlocks(AllDocuments[space.scrapedData])
    IN Concat([b \in 1..Len(blocks) |-> Segments(blocks[b].text, blocks[b].keyPrefix)])

\* the nearest word segment before (after) position i, 0 when there is none
PrevWordAt(segments, i) ==
    IF \E j \in 1..(i - 1) : segments[j].type = "word"
    THEN CHOOSE j \in 1..(i - 1) :
             /\ segments[j].type = "word"
             /\ \A k \in (j + 1)..(i - 1) : segments[k].type # "word"
    ELSE 0

NextWordAt(segments, i) ==
    IF \E j \in (i + 1)..Len(segments) : segments[j].type = "word"
    THEN CHOOSE j \in (i + 1)..Len(segments) :
             /\ segments[j].type = "word"
             /\ \A k \in (i + 1)..(j - 1) : segments[k].type # "word"
    ELSE 0

SelectedAt(segments, j) == j # 0 /\ segments[j].key \in selectionKeySet(viewer)

\* the gap at position i lies, in document order, between two selected words
BetweenSelected(segments, i) ==
    /\ SelectedAt(segments, PrevWordAt(segments, i))
    /\ SelectedAt(segments, NextWordAt(segments, i))

\* ... and both of them are words of the gap's own text block
BetweenSelectedOfBlock(segments, i) ==
    /\ BetweenSelected(segments, i)
    /\ segments[PrevWordAt(segments, i)].key.prefix = segments[i].key.prefix
    /\ segments[NextWordAt(segments, i)].key.prefix = segments[i].key.prefix

\* the text a list of untranslated nodes displays, a <br/> read as a line break
RenderedText(nodes) ==
    Concat([n \in 1..Len(nodes) |->
               IF nodes[n].type = "br" THEN <<"\n">> ELSE nodes[n].before \o nodes[n].after])

\* a finalized selection whose phrase has been translated: the result is
\* present, nothing is loading and the active phrase is the viewer's phrase
TranslationShown ==
    /\ Mounted
    /\ ~viewer.pointerSelectingRef
    /\ viewer.selectionKeys # <<>>
    /\ hasActiveTranslation(viewer, space)

\* the words of a rendering with an active translation: the translation of the
\* phrase once, in place of the first selected word; no other selected word;
\* every other word as it is
WordsShowTranslationOnce(segments) ==
    /\ Val(space.translatedWord).of = Val(viewer.selectionNormalized)
    /\ Cardinality({i \in 1..Len(segments) :
                       \E n \in 1..Len(RenderSegment(segments[i], viewer, space)) :
                           RenderSegment(segments[i], viewer, space)[n].translation # None}) = 1
    /\ \A i \in 1..Len(segments) :
          LET nodes == RenderSegment(segments[i], viewer, space)
          IN segments[i].type = "word"
             => IF segments[i].key = viewer.selectionKeys[1]
                THEN /\ Len(nodes) = 1
                     /\ nodes[1].translation = space.translatedWord
                ELSE IF segments[i].key \in selectionKeySet(viewer)
                THEN nodes = <<>>
                ELSE /\ Len(nodes) = 1
                     /\ nodes[1].translation = None
                     /\ RenderedText(nodes) = segments[i].value

\* C15 as stated: with a finalized, successfully translated selection the
\* rendering shows the translation exactly once, at the first selected token,
\* none of the other selected tokens, no gap between selected tokens, and every
\* token and gap outside the range unchanged
C15_TranslationReplacesRange ==
    TranslationShown
    => /\ WordsShowTranslationOnce(DocumentSegments)
       /\ \A i \in 1..Len(DocumentSegments) :
             DocumentSegments[i].type = "whitespace"
             => IF BetweenSelected(DocumentSegments, i)
                THEN RenderSegment(DocumentSegments[i], viewer, space) = <<>>
                ELSE RenderedText(RenderSegment(DocumentSegments[i], viewer, space))
                         = DocumentSegments[i].value

\* C15: with a finalized, successfully translated selection the rendering shows
\* the translation exactly once, at the first selected token, none of the other
\* selected tokens, no gap between two selected tokens of the same text block,
\* and every other token and gap unchanged
C15_TranslationReplacesRangeOfBlock ==
    TranslationShown
    => /\ WordsShowTranslationOnce(DocumentSegments)
       /\ \A i \in 1..Len(DocumentSegments) :
             DocumentSegments[i].type = "whitespace"
             => IF BetweenSelectedOfBlock(DocumentSegments, i)
                THEN RenderSegment(DocumentSegments[i], viewer, space) = <<>>
                ELSE RenderedText(RenderSegment(DocumentSegments[i], viewer, space))
                         = DocumentSegments[i].value

\* the two words of a subtitle are selected and translated while the word of
\* the headline stays outside the range
C15_Witness ==
    /\ TranslationShown
    /\ Len(viewer.tokenRegistry) = 3
    /\ Len(viewer.selectionKeys) = 2
    /\ viewer.selectionKeys[1].prefix.kind = "subtitle"
    /\ \E i \in 1..Len(DocumentSegments) : BetweenSelectedOfBlock(DocumentSegments, i)

IsWordNode(node) == node.type = "word"

\* C16: whenever no active matching translation exists, every token renders
\* its own text and every gap is rendered, so the text the nodes of each text
\* block display, concatenated, is the block's source text
C16_RenderingWithoutTranslationIsSourceText ==
    (Mounted /\ ~hasActiveTranslation(viewer, space))
    => \A b \in 1..Len(DocumentBlocks(AllDocuments[space.scrapedData])) :
          LET block == DocumentBlocks(AllDocuments[space.scrapedData])[b]
              nodes == renderInteractiveText(block.text, block.keyPrefix, viewer, space)
              words == SelectSeq(nodes, IsWordNode)
              tokens == renderInteractiveTextTokens(block.text, block.keyPrefix)
          IN /\ \A n \in 1..Len(nodes) : nodes[n].translation = None
             /\ [n \in 1..Len(words) |-> words[n].before] = [t \in 1..Len(tokens) |-> tokens[t].token]
             /\ [n \in 1..Len(words) |-> words[n].key] = [t \in 1..Len(tokens) |-> Some(tokens[t].key)]
             /\ RenderedText(nodes) = block.text

\* a translation of an earlier phrase is still held while a drag has extended
\* the selection over a line break to a different phrase
C16_Witness ==
    /\ Mounted
    /\ space.translatedWord # None
    /\ ~hasActiveTranslation(viewer, space)
    /\ viewer.pointerSelectingRef
    /\ Len(viewer.selectionKeys) = 2
    /\ viewer.selectionKeys[1].prefix.kind = "subtitle"
    /\ AllDocuments[space.scrapedData].subtitle = <<"a", "\n", "a">>

\* C20: a save sends a PATCH first and a PUT with the same payload exactly
\* when the PATCH is answered 405; any other non-2xx answer to the PATCH, and a
\* non-2xx answer to the PUT, ends the save as an error with no further
\* request; a save sends at most two requests
C20_PatchThenPutOn405Only ==
    LET save == space.save
        sent == save.requests
    IN /\ Len(sent) <= 2
       /\ save.pc # "idle" => /\ Len(sent) >= 1
                              /\ sent[1].method = "PATCH"
                              /\ sent[1].payload = save.payload
       /\ (Len(sent) = 2) = (Len(sent) >= 1 /\ sent[1].status = 405)
       /\ Len(sent) = 2 => /\ sent[2].method = "PUT"
                           /\ sent[2].payload = sent[1].payload
       /\ \A r \in 1..Len(sent) :
             (sent[r].status # 0 /\ sent[r].status \notin 200..299
                 /\ ~(r = 1 /\ sent[r].status = 405))
             => /\ r = Len(sent)
                /\ save.pc = "done"
                /\ save.status = "error"

\* a save whose PATCH was answered 405 and whose PUT was answered 500
C20_Witness ==
    /\ Len(space.save.requests) = 2
    /\ space.save.requests[1].status = 405
    /\ space.save.requests[2].method = "PUT"
    /\ space.save.requests[2].status = 500
    /\ space.save.status = "error"

\* C30: the translated text and the translation error are never both set, and
\* whenever there is no active selection the translated text, the detected
\* language and the error are all null and the loading flag is false
C30_TranslationStateConsistent ==
    /\ ~(space.translatedWord # None /\ space.translationError # None)
    /\ space.selectedTextInfo = None
       => /\ space.translatedWord = None
          /\ space.detectedLanguage = None
          /\ space.translationError = None
          /\ ~space.isTranslatingWord

\* C29: the loading flag is true exactly when a translation request that has
\* not been canceled is in flight; and if the translation service answers or
\* fails every request, then once the user's selections, clears and language
\* switches have ended the loading flag becomes false and stays false
C29_LoadingFollowsLiveRequest ==
    /\ [](space.isTranslatingWord = (\E id \in RequestIds : Live(space, id)))
    /\ <>[][\E id \in RequestIds : Answer(id)]_vars => <>[](~space.isTranslatingWord)

\* a request is live and the flag is set while an earlier, canceled request of
\* the same session is still unsettled
C29_Witness ==
    /\ space.isTranslatingWord
    /\ \E id \in RequestIds : Live(space, id) /\ space.requests[id].phase = "okBody"
    /\ \E id \in RequestIds : Cancelled(space, id)

ScrapeHistory == space.page.scrapeHistory

\* C21 as stated: after any sequence of history loads, scrape records and link
\* removals the scrape history has no duplicate URL, no empty entry and at
\* most SCRAPE_HISTORY_LIMIT entries, and the most recently scraped URL is first
C21_HistoryDedupedCappedRecentFirst ==
    /\ \A i, j \in 1..Len(ScrapeHistory) : ScrapeHistory[i] = ScrapeHistory[j] => i = j
    /\ \A i \in 1..Len(ScrapeHistory) : ScrapeHistory[i] # <<>>
    /\ Len(ScrapeHistory) <= SCRAPE_HISTORY_LIMIT
    /\ space.page.lastRecorded # None
       => ScrapeHistory # <<>> /\ ScrapeHistory[1] = Val(space.page.lastRecorded)

\* C21: the scrape history has no duplicate URL, no empty entry and at most
\* SCRAPE_HISTORY_LIMIT entries, every entry is trimmed, and the URL scraped
\* most recently since the history was loaded is first unless it has been
\* removed since
C21_HistoryDedupedCappedRecentFirstIfKept ==
    /\ \A i, j \in 1..Len(ScrapeHistory) : ScrapeHistory[i] = ScrapeHistory[j] => i = j
    /\ \A i \in 1..Len(ScrapeHistory) : ScrapeHistory[i] \in CacheKeys
    /\ Len(ScrapeHistory) <= SCRAPE_HISTORY_LIMIT
    /\ space.page.storedHistory = ScrapeHistory
    /\ (space.page.lastRecorded # None /\ Contains(ScrapeHistory, Val(space.page.lastRecorded)))
       => ScrapeHistory[1] = Val(space.page.lastRecorded)

\* a full history whose first entry was scraped again after another URL
C21_Witness ==
    /\ Len(ScrapeHistory) = SCRAPE_HISTORY_LIMIT
    /\ space.page.lastRecorded = Some(ScrapeHistory[1])
    /\ space.page.toast = "cache"
    /\ Mounted

\* the cache holds an entry for 'key' whose age is at most the time to live
FreshEntry(page, key) ==
    /\ key # <<>>
    /\ page.cache[key] # None
    /\ page.now - Val(page.cache[key]).timestamp <= SCRAPE_CACHE_TTL

\* C22: a scrape of a URL is served from the cache, with no backend request,
\* exactly when an entry exists under the trimmed URL and its age is at most
\* the time to live; an older entry is deleted and the scrape is a miss that
\* asks the backend; a successful backend scrape stores an entry with the
\* current time
C22_CacheServesFreshEntriesOnly ==
    /\ [][\A url \in UrlInputs :
            HandleScrape(url)
            => LET key == Trim(url)
                   page == space.page
               IN IF FreshEntry(page, key)
                  THEN /\ space'.scrapedData = Val(page.cache[key]).data
                       /\ space'.page.toast = "cache"
                       /\ space'.page.scraping = page.scraping
                       /\ space'.page.cache = page.cache
                  ELSE /\ space'.scrapedData = space.scrapedData
                       /\ space'.page.toast = page.toast
                       /\ key # <<>>
                          => /\ space'.page.scraping = Append(page.scraping, key)
                             /\ space'.page.cache[key] = None]_vars
    /\ [][\A i \in 1..MaxScrapes :
            ScrapeSucceeds(i)
            => LET key == space.page.scraping[i]
               IN /\ space'.page.cache[key] # None
                  /\ Val(space'.page.cache[key]).timestamp = space.page.now
                  /\ Val(space'.page.cache[key]).data = space'.scrapedData
                  /\ FreshEntry(space'.page, key)]_vars

\* an entry has outlived the time to live, was deleted by a scrape of its URL
\* and the backend has been asked again
C22_Witness ==
    /\ space.page.now > SCRAPE_CACHE_TTL
    /\ space.page.scraping = << <<"u">> >>
    /\ space.page.cache[<<"u">>] = None
    /\ Contains(ScrapeHistory, <<"u">>)
    /\ space.page.toast = "scraped"

(***************************************************************************)
(* Notes, saved words and links of the space                               *)
(***************************************************************************)
\* spaceQuery resolves: the document enters the query cache
QueryLoads(document) ==
    /\ space.page.document = None
    /\ PageStep(setQueryData(space.page, document))

\* the render that follows setDraft: the draft is shown, the cleanup of the
\* autosave effect clears the timer and the effect runs again
DraftRender ==
    /\ space.page.pendingDraft # None
    /\ PageStep(AutosaveEffect([space.page EXCEPT !.draft = Val(space.page.pendingDraft),
                                                  !.pendingDraft = None]))

\* the autosave timer fires: mutation.mutate({ id, text: draft, words })
TimerFires ==
    /\ space.page.saveTimer
    /\ space.page.pendingSave = None
    /\ PageStep([space.page EXCEPT !.saveTimer = FALSE,
                                   !.pendingSave = Some(space.page.draft)])

SaveSucceeds(updated) ==
    /\ space.page.pendingSave # None
    /\ PageStep(mutationOnSuccess([space.page EXCEPT !.pendingSave = None],
                                  updated, Val(space.page.pendingSave)))

SaveFails ==
    /\ space.page.pendingSave # None
    /\ PageStep(mutationOnError([space.page EXCEPT !.pendingSave = None]))

\* handleRemoveWord, handleAddWord
StartWordMutation(kind) ==
    /\ space.page.document # None
    /\ space.page.wordMutation = None
    /\ PageStep([space.page EXCEPT !.wordMutation = Some(kind)])

\* removeWordMutation / addWordMutation: onSuccess and onSettled
WordMutationSucceeds(updated) ==
    /\ space.page.wordMutation # None
    /\ PageStep(setQueryData([space.page EXCEPT !.wordMutation = None,
                                                !.toast = "word-saved"], updated))

\* removeWordMutation / addWordMutation: onError and onSettled
WordMutationFails ==
    /\ space.page.wordMutation # None
    /\ PageStep([space.page EXCEPT !.wordMutation = None, !.toast = "word-error"])

\* handleRemoveLink
StartRemoveLink(url) ==
    /\ space.page.document # None
    /\ normalizeCacheKey(url) # <<>>
    /\ space.page.linkMutation = None
    /\ PageStep([space.page EXCEPT !.linkMutation = Some(normalizeCacheKey(url))])

RemoveLinkAnswered(updated) ==
    /\ space.page.linkMutation # None
    /\ RemoveLinkSucceeds(Val(space.page.linkMutation), updated)

RemoveLinkFails ==
    /\ space.page.linkMutation # None
    /\ PageStep(removeLinkOnError(space.page, Val(space.page.linkMutation)))

NextNotes ==
    \/ \E parsed \in StoredLists : LoadHistory(parsed)
    \/ \E document \in ServerDocuments : QueryLoads(document)
    \/ DraftRender
    \/ TimerFires
    \/ \E updated \in ServerDocuments : SaveSucceeds(updated)
    \/ SaveFails
    \/ \E kind \in {"add", "remove"} : StartWordMutation(kind)
    \/ \E updated \in ServerDocuments : WordMutationSucceeds(updated)
    \/ WordMutationFails
    \/ \E url \in UrlInputs : StartRemoveLink(url)
    \/ \E updated \in ServerDocuments : RemoveLinkAnswered(updated)
    \/ RemoveLinkFails

SpecNotes == Init /\ [][NextNotes]_vars

C23_WitnessLink ==
    /\ space.page.toast = "link-error"
    /\ space.page.scrapeHistory # <<>>
    /\ space.page.document # None

(***************************************************************************)
(* Drags across text blocks                                                *)
(***************************************************************************)
\* the keys lie in more than one text block (key prefix)
SpansBlocks(keys) == \E i, j \in 1..Len(keys) : keys[i].prefix # keys[j].prefix

\* a drag is under way from an anchor token of another text block than tokenKey
CrossBlockDrag(tokenKey) ==
    /\ viewer.pointerSelectingRef
    /\ viewer.anchorKeyRef # None
    /\ Val(viewer.anchorKeyRef).prefix # tokenKey.prefix

\* C24 as stated: a drag whose anchor and focus tokens lie in different text
\* blocks does not resolve, and no selection spanning the two blocks is produced
C24_CrossBlockDragDoesNotResolve ==
    [][\A k \in RenderedKeys :
          PointerEnter(k) /\ CrossBlockDrag(k) =>
              /\ ~SpansBlocks(viewer'.selectionKeys)
              /\ viewer'.selectionKeys = viewer.selectionKeys]_vars

\* C24: a drag whose anchor and focus tokens lie in different text blocks of
\* the rendered document resolves against the one registry of the render pass:
\* the selection becomes the contiguous run of registered tokens between the
\* two tokens, which spans the blocks
C24_CrossBlockDragSelectsAcrossBlocks ==
    [][\A k \in RenderedKeys :
          PointerEnter(k) /\ CrossBlockDrag(k) =>
              LET tokens == viewer.tokenRegistry
                  keys == viewer'.selectionKeys
              IN  /\ SpansBlocks(keys)
                  /\ {keys[1], keys[Len(keys)]} = {Val(viewer.anchorKeyRef), k}
                  /\ \E from \in 1..Len(tokens) :
                         /\ from + Len(keys) - 1 <= Len(tokens)
                         /\ keys = KeysOf(SubSeq(tokens, from, from + Len(keys) - 1))]_vars

\* a drag is under way and the selection spans two text blocks
C24_Witness ==
    /\ viewer.pointerSelectingRef
    /\ viewer.anchorKeyRef # None
    /\ SpansBlocks(viewer.selectionKeys)
    /\ Val(viewer.anchorKeyRef) \in {viewer.selectionKeys[1],
                                     viewer.selectionKeys[Len(viewer.selectionKeys)]}

(***************************************************************************)
(* The boundaries of a translated selection                                *)
(***************************************************************************)
\* C28: when a selection of several tokens is shown translated, the displayed
\* unit is the leading boundary recorded for the selection (of its first
\* token), the translated text, and the trailing boundary recorded for the
\* selection (of its last token)
C28_TranslatedUnitUsesSelectionBoundaries ==
    (TranslationShown /\ Len(viewer.selectionKeys) >= 2 /\ viewer.selectionBoundaries # None)
    => \A i \in 1..Len(DocumentSegments) :
          (DocumentSegments[i].type = "word" /\ DocumentSegments[i].key = viewer.selectionKeys[1])
          => RenderSegment(DocumentSegments[i], viewer, space)
                 = <<WordNode(DocumentSegments[i].key,
                              Val(viewer.selectionBoundaries).leading,
                              space.translatedWord,
                              Val(viewer.selectionBoundaries).trailing)>>

(***************************************************************************)
(* Event listeners of the viewer and of the font and language menus        *)
(***************************************************************************)
IsMenuOpen(page, menu) ==
    IF menu = "font" THEN page.isFontMenuOpen ELSE page.isLanguageMenuOpen

\* setIsFontMenuOpen / setIsLanguageMenuOpen and the effect on the flag: the
\* cleanup of the last run removes its listeners, the new run adds its own
\* when the menu is open; the language effect empties the query otherwise
setIsMenuOpen(page, menu, open) ==
    IF IsMenuOpen(page, menu) = open THEN page
    ELSE LET flagged == IF menu = "font"
                        THEN [page EXCEPT !.isFontMenuOpen = open]
                        ELSE [page EXCEPT !.isLanguageMenuOpen = open,
                                          !.languageQuery = IF open THEN @ ELSE <<>>]
         IN [flagged EXCEPT !.listeners =
                IF open THEN addEventListener(@, MenuListeners(menu))
                ELSE removeEventListener(@, MenuListeners(menu))]

\* the handlers registered for an event of the document run: each closes its menu
RECURSIVE CloseMenus(_, _)
CloseMenus(page, menus) ==
    IF menus = {} THEN page
    ELSE LET menu == CHOOSE m \in menus : TRUE
         IN CloseMenus(setIsMenuOpen(page, menu, FALSE), menus \ {menu})

Listening(page, type, menu) == page.listeners[Listener("document", type, menu)] > 0

\* onClick of a menu's button (by keyboard, or after the pointer went down on it)
ToggleMenu(menu) ==
    /\ space.page.mounted
    /\ PageStep(setIsMenuOpen(space.page, menu, ~IsMenuOpen(space.page, menu)))

\* mousedown or touchstart on the document, inside the element 'area' (a menu,
\* or "elsewhere"): handlePointerDown of every listening menu
DocumentPointerDown(type, area) ==
    /\ space.page.mounted
    /\ \E menu \in Menus : Listening(space.page, type, menu)
    /\ PageStep(CloseMenus(space.page,
                           {menu \in Menus : Listening(space.page, type, menu) /\ area # menu}))

\* keydown of Escape on the document: handleEscape of every listening menu
DocumentEscape ==
    /\ space.page.mounted
    /\ \E menu \in Menus : Listening(space.page, "keydown", menu)
    /\ PageStep(CloseMenus(space.page, {menu \in Menus : Listening(space.page, "keydown", menu)}))

\* handleFontSelect, handleLanguageSelect
SelectOption(menu) ==
    /\ space.page.mounted
    /\ IsMenuOpen(space.page, menu)
    /\ PageStep(setIsMenuOpen([space.page EXCEPT !.languageQuery =
                                   IF menu = "language" THEN <<>> ELSE @], menu, FALSE))

\* the search field of the open language menu
TypeLanguageQuery ==
    /\ space.page.mounted
    /\ space.page.isLanguageMenuOpen
    /\ PageStep([space.page EXCEPT !.languageQuery = <<"a">>])

\* the first scrape shows the viewer, later ones give it a new document
ScrapeShown(d) == space.page.mounted /\ SetScrapedData(d)

\* the page is left: the cleanups of the effects of Space and of the viewer run
UnmountSpace ==
    /\ space.page.mounted
    /\ Quiet
    /\ space' = [InitialSpace(space.selectedLanguageCode) EXCEPT
                    !.page = [InitialPage EXCEPT
                                 !.mounted = FALSE,
                                 !.listeners =
                                     removeEventListener(
                                         CloseMenus(space.page, Menus).listeners,
                                         IF space.page.viewerMounted THEN ViewerListeners ELSE {})]]
    /\ viewer' = InitialViewer
    /\ observed' = Observed(<<>>, None)

\* the page is opened again
MountSpace ==
    /\ ~space.page.mounted
    /\ PageStep([space.page EXCEPT !.mounted = TRUE])

\* pointerup or pointercancel on the window reaches the viewer through its listener
WindowPointerUp(cancel) ==
    /\ space.page.listeners[Listener("window", IF cancel THEN "pointercancel" ELSE "pointerup",
                                     "viewer")] > 0
    /\ PointerUp(cancel)

NextListeners ==
    \/ \E d \in Documents : ScrapeShown(d)
    \/ \E k \in RenderedKeys, shiftKey \in BOOLEAN : PointerDown(k, TRUE, shiftKey)
    \/ \E k \in RenderedKeys : PointerEnter(k)
    \/ \E cancel \in BOOLEAN : WindowPointerUp(cancel)
    \/ \E menu \in Menus : ToggleMenu(menu)
    \/ \E type \in {"mousedown", "touchstart"}, area \in Menus \cup {"elsewhere"} :
           DocumentPointerDown(type, area)
    \/ DocumentEscape
    \/ \E menu \in Menus : SelectOption(menu)
    \/ TypeLanguageQuery
    \/ UnmountSpace
    \/ MountSpace

SpecListeners == Init /\ [][NextListeners]_vars

\* C26: the window's pointerup and pointercancel listeners are registered
\* exactly once while the viewer is mounted and not at all otherwise (none
\* remain after teardown); the mousedown, touchstart and keydown listeners of
\* the font menu and of the language menu are registered, once each, if and
\* only if that menu is open
C26_ListenersFollowMountAndMenus ==
    /\ \A kind \in ViewerListeners :
          space.page.listeners[kind] = IF space.page.mounted /\ Mounted THEN 1 ELSE 0
    /\ \A menu \in Menus : \A kind \in MenuListeners(menu) :
          space.page.listeners[kind] = IF space.page.mounted /\ IsMenuOpen(space.page, menu) THEN 1 ELSE 0
    /\ ~space.page.mounted => \A kind \in ListenerKinds : space.page.listeners[kind] = 0

\* the viewer shows a document with a drag under way, and only the language
\* menu is open, with a query typed
C26_Witness ==
    /\ space.page.mounted
    /\ Mounted
    /\ space.page.isLanguageMenuOpen
    /\ ~space.page.isFontMenuOpen
    /\ space.page.languageQuery # <<>>
    /\ viewer.pointerSelectingRef

\* the page has been left: the viewer and both menus are gone
C26_WitnessTeardown == ~space.page.mounted

(***************************************************************************)
(* Pronunciation of the selected text                                      *)
(***************************************************************************)
\* speakWithBrowser; available: the browser has speechSynthesis
speakWithBrowser(page, text, available) ==
    IF available
    THEN [page EXCEPT !.speaking = Some(text), !.isPlayingPronunciation = TRUE]
    ELSE [page EXCEPT !.pronunciationError = Some("unavailable"),
                      !.isPlayingPronunciation = FALSE]

\* playPronunciation up to its fetch: the audio of the ref is paused, the
\* speech is canceled and the request for the audio of the text is sent
PlayPronunciation ==
    /\ space.page.mounted
    /\ space.selectedTextInfo # None
    /\ Trim(Val(space.selectedTextInfo).original) # <<>>
    /\ space.page.audioFetch = None
    /\ PageStep([space.page EXCEPT
                    !.audio = IF @ = None THEN None ELSE Some([Val(@) EXCEPT !.playing = FALSE]),
                    !.speaking = None,
                    !.pronunciationError = None,
                    !.isPlayingPronunciation = TRUE,
                    !.audioFetch = Some(Trim(Val(space.selectedTextInfo).original))])

\* the response is ok and its blob is read: the audio is put in the ref and played
AudioFetched ==
    /\ space.page.audioFetch # None
    /\ PageStep([space.page EXCEPT
                    !.audioFetch = None,
                    !.audio = Some([text |-> Val(space.page.audioFetch), playing |-> TRUE])])

\* the fetch rejects or the response is not ok: the catch speaks with the browser
AudioFetchFails(available) ==
    /\ space.page.audioFetch # None
    /\ PageStep(speakWithBrowser([space.page EXCEPT !.audioFetch = None],
                                 Val(space.page.audioFetch), available))

\* audio.onended
AudioEnds ==
    /\ space.page.audio # None
    /\ Val(space.page.audio).playing
    /\ PageStep([space.page EXCEPT !.audio = None, !.isPlayingPronunciation = FALSE])

\* utterance.onend
SpeechEnds ==
    /\ space.page.speaking # None
    /\ PageStep([space.page EXCEPT !.speaking = None, !.isPlayingPronunciation = FALSE])

NextPronunciation ==
    \/ \E d \in LiveDocuments : SetScrapedData(d)
    \/ ViewerEvent
    \/ SpaceEvent
    \/ PlayPronunciation
    \/ AudioFetched
    \/ \E available \in BOOLEAN : AudioFetchFails(available)
    \/ AudioEnds
    \/ SpeechEnds

SpecPronunciation == Init /\ [][NextPronunciation]_vars

\* the text that is being played or spoken is the text of the selection
Pronounces(text) ==
    /\ space.selectedTextInfo # None
    /\ Trim(Val(space.selectedTextInfo).original) = text

\* C25: a fetch of pronunciation audio that is in flight when the selection
\* changes or is cleared is canceled, so audio (or speech) for a selection that
\* is no longer the current one never starts: whatever plays is for the text of
\* the current selection, and no fetch is in flight without a selection
C25_NoAudioForPreviousSelection ==
    /\ (space.page.audio # None /\ Val(space.page.audio).playing)
           => Pronounces(Val(space.page.audio).text)
    /\ space.page.speaking # None => Pronounces(Val(space.page.speaking))
    /\ space.page.audioFetch # None => Pronounces(Val(space.page.audioFetch))

(***************************************************************************)
(* Token keys as the strings the viewer builds                             *)
(***************************************************************************)
Digits == <<"0", "1", "2", "3", "4", "5", "6", "7", "8", "9">>

\* the decimal digits of a template literal's number
RECURSIVE NumberString(_)
NumberString(n) ==
    IF n < 10 THEN <<Digits[n + 1]>>
    ELSE NumberString(n \div 10) \o <<Digits[(n % 10) + 1]>>

SectionString(section) == <<"s", "e", "c", "t", "i", "o", "n", "-">> \o NumberString(section)

\* faulty variant: the prefix of a list item leaves out the item's index
KeyPrefixStringWithoutItem(prefix) ==
    IF prefix.kind = "headline" THEN <<"h", "e", "a", "d", "l", "i", "n", "e">>
    ELSE IF prefix.kind = "subtitle" THEN <<"s", "u", "b", "t", "i", "t", "l", "e">>
    ELSE IF prefix.kind = "heading"
    THEN SectionString(prefix.section) \o <<"-", "h", "e", "a", "d", "i", "n", "g">>
    ELSE IF prefix.kind = "paragraph"
    THEN SectionString(prefix.section) \o <<"-", "p", "a", "r", "a", "g", "r", "a", "p", "h", "-">> \o NumberString(prefix.block)
    ELSE SectionString(prefix.section) \o <<"-", "l", "i", "s", "t", "-">> \o NumberString(prefix.block)

\* the keyPrefix argument of each renderInteractiveText call
KeyPrefixString(prefix) ==
    IF prefix.kind = "headline" THEN <<"h", "e", "a", "d", "l", "i", "n", "e">>
    ELSE IF prefix.kind = "subtitle" THEN <<"s", "u", "b", "t", "i", "t", "l", "e">>
    ELSE IF prefix.kind = "heading"
    THEN SectionString(prefix.section) \o <<"-", "h", "e", "a", "d", "i", "n", "g">>
    ELSE IF prefix.kind = "paragraph"
    THEN SectionString(prefix.section) \o <<"-", "p", "a", "r", "a", "g", "r", "a", "p", "h", "-">> \o NumberString(prefix.block)
    ELSE SectionString(prefix.section) \o <<"-", "l", "i", "s", "t", "-">> \o NumberString(prefix.block)
         \o <<"-">> \o NumberString(prefix.item)

\* `${keyPrefix}-word-${wordCounter}`
TokenKeyString(key) ==
    KeyPrefixString(key.prefix) \o <<"-", "w", "o", "r", "d", "-">> \o NumberString(key.word)

NextKeys == \E d \in StructuredDocuments : LoadText(d)

SpecKeys == Init /\ [][NextKeys]_vars

\* C27: within one render pass every token key of the registry is unique,
\* across all text blocks of the document (headline, subtitle, section
\* headings, paragraphs, list items)
C27_TokenKeysUnique ==
    \A i, j \in 1..Len(viewer.tokenRegistry) :
        TokenKeyString(viewer.tokenRegistry[i].key) = TokenKeyString(viewer.tokenRegistry[j].key)
        => i = j

\* a document with two sections is rendered: headings, a paragraph and lists,
\* one of them with a two-digit item index
C27_Witness ==
    /\ Mounted
    /\ \E i, j, k, l \in 1..Len(viewer.tokenRegistry) :
          /\ viewer.tokenRegistry[i].key.prefix.kind = "heading"
          /\ viewer.tokenRegistry[i].key.prefix.section = 1
          /\ viewer.tokenRegistry[j].key.prefix.kind = "paragraph"
          /\ viewer.tokenRegistry[k].key.prefix.kind = "list"
          /\ viewer.tokenRegistry[k].key.prefix.item = 10
          /\ viewer.tokenRegistry[l].key.prefix.kind = "list"
          /\ viewer.tokenRegistry[l].key.prefix.block = 1
          /\ viewer.tokenRegistry[l].key.word = 1

(***************************************************************************)
(* The refs of a drag                                                      *)
(***************************************************************************)
\* C35: the pointer-selecting flag is set exactly when an anchor key is set,
\* and while it is set the anchor is the first or the last key of the
\* current selection
C35_SelectingIffAnchoredAtAnEnd ==
    /\ viewer.pointerSelectingRef <=> viewer.anchorKeyRef # None
    /\ viewer.pointerSelectingRef =>
          /\ viewer.selectionKeys # <<>>
          /\ Val(viewer.anchorKeyRef) \in {viewer.selectionKeys[1],
                                           viewer.selectionKeys[Len(viewer.selectionKeys)]}

\* a drag that went backwards: the anchor is the last key of a selection of
\* several tokens
C35_Witness ==
    /\ viewer.pointerSelectingRef
    /\ Len(viewer.selectionKeys) >= 2
    /\ Val(viewer.anchorKeyRef) = viewer.selectionKeys[Len(viewer.selectionKeys)]
    /\ Val(viewer.anchorKeyRef) # viewer.selectionKeys[1]

(***************************************************************************)
(* The phrase of the viewer and the phrase of its parent                   *)
(***************************************************************************)
\* the normalized value handleSelectionChange derives from an emitted phrase
ParentNormalized(text) == buildNormalizedSelection(Trim(CollapseWhitespace(text)))

\* C31: the normalized value the parent derives from every non-null phrase the
\* viewer emits is that phrase, so for a finalized selection the active phrase
\* of the parent equals the viewer's phrase and the renderer's guard holds
\* once a translation of it is present and nothing is loading
C31_ParentPhraseIsViewerPhrase ==
    /\ \A i \in 1..Len(observed.calls) :
          observed.calls[i].text # None
          => ParentNormalized(Val(observed.calls[i].text)) = Val(observed.calls[i].text)
    /\ (/\ Mounted /\ Quiet
        /\ ~viewer.pointerSelectingRef
        /\ viewer.selectionNormalized # None
        /\ space.selectedTextInfo # None)
       => /\ Val(space.selectedTextInfo).normalized = Val(viewer.selectionNormalized)
          /\ (space.translatedWord # None /\ ~space.isTranslatingWord)
                 => hasActiveTranslation(viewer, space)

\* two tokens of a scraped text, one of them with a boundary character, are
\* selected, the selection is finalized and its translation has arrived
C31_Witness ==
    /\ TranslationShown
    /\ Len(viewer.selectionKeys) = 2
    /\ Val(space.selectedTextInfo).normalized = Val(viewer.selectionNormalized)
    /\ \E i \in 1..Len(viewer.tokenRegistry) :
          /\ viewer.tokenRegistry[i].key \in selectionKeySet(viewer)
          /\ viewer.tokenRegistry[i].normalized # viewer.tokenRegistry[i].token

(***************************************************************************)
(* Scrape requests that overlap                                            *)
(***************************************************************************)
MaxConcurrentScrapes == 2

ScrapeUrls == {<<"u">>, <<"v">>}

NextScrape ==
    \/ \E parsed \in {<<>>} : LoadHistory(parsed)
    \/ \E url \in ScrapeUrls : HandleScrapeWithin(url, MaxConcurrentScrapes)
    \/ \E i \in 1..MaxConcurrentScrapes : ScrapeSucceeds(i)
    \/ \E i \in 1..MaxConcurrentScrapes : ScrapeFails(i)
    \/ Tick

SpecScrape == Init /\ [][NextScrape]_vars

\* C32: once every scrape request has completed, the displayed article is the
\* one of the URL requested last (when that request did not fail): an earlier
\* request that answers later never replaces the article of a later request
C32_LatestScrapeIsDisplayed ==
    (/\ space.page.scraping = <<>>
     /\ space.page.latestScrape # None
     /\ ~Val(space.page.latestScrape).failed)
    => space.scrapedData = ScrapedDocument(Val(space.page.latestScrape).url)

(***************************************************************************)
(* Opening a space: the stored scrape history of each space                *)
(***************************************************************************)
\* JSON.parse of what saveScrapeHistory stored: an array of strings
Parsed(stored) == [i \in 1..Len(stored) |-> [isString |-> TRUE, value |-> stored[i]]]

\* window.localStorage.setItem(getScrapeHistoryKey(space), ...) by saveScrapeHistory;
\* the write is logged with 'held', the list the key held before the step began
StoreHistory(page, name, history, by, held) ==
    [page EXCEPT !.stores[name] = Take(history, SCRAPE_HISTORY_LIMIT),
                 !.writes = Append(@, [key |-> name,
                                       value |-> Take(history, SCRAPE_HISTORY_LIMIT),
                                       before |-> held,
                                       by |-> by])]

\* the commit that shows space 'name' with the history state 'shown': the effect
\* on [name] reads the stored list and sets it as the state, the effect on
\* [name, scrapeHistory] stores the state of this render; the render of the
\* list that was read follows and its effect stores that list
OpenEffects(page, name, shown) ==
    LET loaded == loadScrapeHistory(Parsed(page.stores[name]))
        first == StoreHistory([page EXCEPT !.name = Some(name), !.writes = <<>>],
                              name, shown, "open", page.stores[name])
    IN [StoreHistory(first, name, loaded, "open", page.stores[name]) EXCEPT
           !.scrapeHistory = loaded,
           !.storedHistory = Take(loaded, SCRAPE_HISTORY_LIMIT),
           !.loaded = TRUE,
           !.lastRecorded = None]

OpenStep(page) ==
    /\ space' = [space EXCEPT !.page = page]
    /\ UNCHANGED <<viewer, observed>>

\* the page of space 'name' is mounted: the history state starts empty
MountSpaceNamed(name) ==
    /\ space.page.name = None
    /\ OpenStep(OpenEffects(space.page, name, <<>>))

\* the route changes to another space and the component stays mounted: the
\* history state of the space shown before is still the state
ChangeSpaceName(name) ==
    /\ space.page.name # None
    /\ Val(space.page.name) # name
    /\ OpenStep(OpenEffects(space.page, name, space.page.scrapeHistory))

\* recordScrapeHistoryEntry(url) and the effect on [name, scrapeHistory]
RecordEntry(url) ==
    /\ space.page.name # None
    /\ LET history == recordScrapeHistoryEntry(space.page.scrapeHistory, url)
       IN OpenStep([StoreHistory([space.page EXCEPT !.writes = <<>>],
                                 Val(space.page.name), history, "record",
                                 space.page.stores[Val(space.page.name)]) EXCEPT
                       !.scrapeHistory = history,
                       !.storedHistory = Take(history, SCRAPE_HISTORY_LIMIT),
                       !.lastRecorded = Some(url)])

\* the page is left: the component's state is gone, the stored lists stay
LeaveSpace ==
    /\ space.page.name # None
    /\ OpenStep([space.page EXCEPT !.name = None,
                                   !.scrapeHistory = <<>>,
                                   !.storedHistory = <<>>,
                                   !.loaded = FALSE,
                                   !.lastRecorded = None,
                                   !.writes = <<>>])

NextOpen ==
    \/ \E name \in SpaceNames : MountSpaceNamed(name)
    \/ \E name \in SpaceNames : ChangeSpaceName(name)
    \/ \E url \in CacheKeys : RecordEntry(url)
    \/ LeaveSpace

SpecOpen == Init /\ [][NextOpen]_vars

\* C34: opening a space (a mount, or a change of the space name without a
\* remount) never overwrites that space's stored history with the empty
\* initial list or with the list of the space viewed before: every write an
\* opening makes under a space's key stores the list the key already held
C34_OpeningKeepsStoredHistory ==
    \A i \in 1..Len(space.page.writes) :
        space.page.writes[i].by = "open"
        => space.page.writes[i].value = space.page.writes[i].before

(***************************************************************************)
(* The save status                                                         *)
(***************************************************************************)
\* C33: the status is "saving" only while a debounce timer or a save request
\* is pending: where the draft equals the last-synced text and neither is
\* pending (as after a space with content has finished loading) it is not
\* "saving"
C33_SavingOnlyWhilePending ==
    (/\ space.page.draft = space.page.lastSyncedRef
     /\ space.page.pendingDraft = None
     /\ ~space.page.saveTimer
     /\ space.page.pendingSave = None)
    => space.page.status # "saving"

==============================================================================
